---- MODULE Spec2Model ----
(***************************************************************************)
(* Model of the version-update engine of brel (src/src/version_update.rs   *)
(* and src/src/version_selector.rs): the selector parser, the path         *)
(* resolver, the JSON and TOML mutators and the per-file orchestrator      *)
(* apply_version_updates.                                                  *)
(*                                                                         *)
(* Strings of the program (relative paths, selector texts, mapping keys,   *)
(* string scalars) are sequences of one-character strings, so that         *)
(* trimming, splitting, extension lookup and the byte-wise ordering of     *)
(* Rust's String are computed the way the code computes them.  Sequence    *)
(* positions are 1-based here and 0-based in the source.                   *)
(***************************************************************************)
EXTENDS Integers, Sequences, FiniteSets, TLC

VARIABLES
    disk,             \* the repository tree: relative path -> file state
    next_version,     \* argument of apply_version_updates
    version_updates,  \* argument: BTreeMap<String, Vec<String>>
    format_overrides, \* argument: BTreeMap<String, VersionFileFormat>
    pc,               \* position inside apply_version_updates
    fileIdx,          \* position of the `for (relative_path, selectors)` loop
    format,           \* local `format`
    content,          \* local `content`
    parsed_selectors, \* local `parsed_selectors`
    value,            \* update_json_file: `value`; update_toml_file: `source_value`
    document,         \* update_toml_file: `document`
    selIdx,           \* position of the `for (selector_text, selector)` loop
    segIdx,           \* position of the `for segment` loop of the resolver
    current_paths,    \* resolver: `current_paths`
    target_paths,     \* `target_paths`
    pathIdx,          \* position of the `for path in &target_paths` loop
    changed,          \* local `changed`
    changed_files,    \* local `changed_files`
    result,           \* what the call returned; "running" while it runs
    callNo,           \* number of the present call of apply_version_updates
    disk0,            \* the repository tree when the present call started
    ioLog,            \* file-system operations of the present call, in order
    rpc,              \* position inside run_with_runner; "none" outside of it
    config,           \* run_with_runner: `config`
    tokens,           \* `gh_token_override` and the process environment
    calls,            \* the commands handed to the CommandRunner, in order
    latest_tag,       \* resolve_next_release: `latest_tag`
    next_release,     \* run_with_runner: what resolve_next_release returned
    managed_pr,       \* run_with_runner: `managed_pr`
    outcome           \* what run_with_runner returned; "running" while it runs

vars == <<disk, next_version, version_updates, format_overrides, pc, fileIdx,
          format, content, parsed_selectors, value, document, selIdx, segIdx,
          current_paths, target_paths, pathIdx, changed, changed_files,
          result, callNo, disk0, ioLog, rpc, config, tokens, calls,
          latest_tag, next_release, managed_pr, outcome>>

----------------------------------------------------------------------------
(* Results and options *)

Ok(v) == [ok |-> TRUE, v |-> v]

Err(e) == [ok |-> FALSE, err |-> e]

None == [some |-> FALSE]

Some(v) == [some |-> TRUE, v |-> v]

\* A panic that unwinds out of the function instead of a returned value.
Panic(msg) == [ok |-> FALSE, panic |-> msg]

Panicked(r) == ~r.ok /\ "panic" \in DOMAIN r

----------------------------------------------------------------------------
(* Strings *)

\* The byte of a character (ASCII), for the characters the model uses.
CharCode(c) ==
    CASE c = "\t" -> 9   [] c = " "  -> 32  [] c = "\"" -> 34  [] c = "'"  -> 39
      [] c = "-"  -> 45  [] c = "."  -> 46  [] c = "/"  -> 47
      [] c = "0"  -> 48  [] c = "1"  -> 49  [] c = "2"  -> 50  [] c = "3"  -> 51
      [] c = "4"  -> 52  [] c = "5"  -> 53  [] c = "6"  -> 54  [] c = "7"  -> 55
      [] c = "8"  -> 56  [] c = "9"  -> 57  [] c = "="  -> 61
      [] c = "C"  -> 67  [] c = "J"  -> 74  [] c = "L"  -> 76  [] c = "M"  -> 77
      [] c = "N"  -> 78  [] c = "O"  -> 79  [] c = "S"  -> 83  [] c = "T"  -> 84
      [] c = "["  -> 91  [] c = "]"  -> 93
      [] c = "a"  -> 97  [] c = "b"  -> 98  [] c = "c"  -> 99  [] c = "d"  -> 100
      [] c = "e"  -> 101 [] c = "f"  -> 102 [] c = "j"  -> 106 [] c = "k"  -> 107
      [] c = "l"  -> 108 [] c = "m"  -> 109 [] c = "n"  -> 110 [] c = "o"  -> 111
      [] c = "p"  -> 112 [] c = "s"  -> 115 [] c = "t"  -> 116 [] c = "v"  -> 118
      [] c = "x"  -> 120 [] c = "y"  -> 121

\* Ord for str: byte-wise lexicographic.
RECURSIVE StrLess(_, _)
StrLess(a, b) ==
    IF b = <<>> THEN FALSE
    ELSE IF a = <<>> THEN TRUE
    ELSE IF Head(a) = Head(b) THEN StrLess(Tail(a), Tail(b))
    ELSE CharCode(Head(a)) < CharCode(Head(b))

Contains(s, c) == \E i \in 1..Len(s) : s[i] = c

\* str::find(char): the first position of c, 0 when there is none.
Find(s, c) == IF Contains(s, c) THEN CHOOSE i \in 1..Len(s) : s[i] = c /\ \A j \in 1..(i-1) : s[j] # c
              ELSE 0

IsWhitespace(c) == c \in {" ", "\t"}

RECURSIVE TrimStart(_)
TrimStart(s) == IF s # <<>> /\ IsWhitespace(Head(s)) THEN TrimStart(Tail(s)) ELSE s

RECURSIVE TrimEnd(_)
TrimEnd(s) == IF s # <<>> /\ IsWhitespace(s[Len(s)]) THEN TrimEnd(SubSeq(s, 1, Len(s) - 1)) ELSE s

\* str::trim
Trim(s) == TrimEnd(TrimStart(s))

\* `&s[first - 1..last]`: the characters first..last of s (none when
\* first = last + 1); a range that is out of bounds panics.
Slice(s, first, last) ==
    IF first >= 1 /\ first <= last + 1 /\ last <= Len(s)
    THEN Ok(SubSeq(s, first, last))
    ELSE Panic("byte index out of range")

IsAsciiDigit(c) == c \in {"0", "1", "2", "3", "4", "5", "6", "7", "8", "9"}

----------------------------------------------------------------------------
(* version_selector.rs: the selector parser *)

NoQualifier == [t |-> "None"]

Index(i) == [t |-> "Index", index |-> i]

Filter(field, v) == [t |-> "Filter", field |-> field, value |-> v]

SelectorSegment(key, qualifier) == [key |-> key, qualifier |-> qualifier]

\* Mutant of parse_token: the token is not trimmed.
ParseTokenUntrimmed(raw, label) ==
    IF raw = <<>> THEN Err("empty " \o label)
    ELSE IF Contains(raw, ".") \/ Contains(raw, "[") \/ Contains(raw, "]")
         THEN Err(label \o " contains an unsupported character")
    ELSE Ok(raw)

parse_token(raw, label) ==
    LET token == Trim(raw) IN
    IF token = <<>> THEN Err("empty " \o label)
    ELSE IF Contains(token, ".") \/ Contains(token, "[") \/ Contains(token, "]")
         THEN Err(label \o " contains an unsupported character")
    ELSE Ok(token)

\* Mutant of strip_wrapping_quotes: the length is not looked at.
StripWrappingQuotesAnyLength(v) ==
    IF v = <<>> THEN Panic("index out of bounds")
    ELSE IF \/ (v[1] = "\"" /\ v[Len(v)] = "\"")
            \/ (v[1] = "'" /\ v[Len(v)] = "'")
         THEN Slice(v, 2, Len(v) - 1)
         ELSE Ok(v)

\* Ok(the returned slice), or the panic of the slicing.
strip_wrapping_quotes(v) ==
    IF Len(v) >= 2
    THEN IF \/ (v[1] = "\"" /\ v[Len(v)] = "\"")
            \/ (v[1] = "'" /\ v[Len(v)] = "'")
         THEN Slice(v, 2, Len(v) - 1)
         ELSE Ok(v)
    ELSE Ok(v)

\* Mutant of parse_filter_value: the value is not looked at again after the
\* quotes are stripped.
ParseFilterValueUnchecked(raw) ==
    LET v == Trim(raw) IN
    IF v = <<>> THEN Err("empty filter value")
    ELSE strip_wrapping_quotes(v)

parse_filter_value(raw) ==
    LET v == Trim(raw) IN
    IF v = <<>> THEN Err("empty filter value")
    ELSE LET normalized == strip_wrapping_quotes(v) IN
         IF ~normalized.ok THEN normalized
         ELSE IF normalized.v = <<>> THEN Err("empty filter value")
         ELSE IF Contains(normalized.v, "[") \/ Contains(normalized.v, "]")
              THEN Err("filter value contains an unsupported character")
         ELSE normalized

DigitValue(c) == CharCode(c) - 48

\* The number a string of ASCII digits denotes.
RECURSIVE DigitsValue(_)
DigitsValue(s) == IF s = <<>> THEN 0 ELSE 10 * DigitsValue(SubSeq(s, 1, Len(s) - 1)) + DigitValue(s[Len(s)])

\* usize::MAX, 2^64 - 1, in decimal.
UsizeMaxDigits ==
    <<"1", "8", "4", "4", "6", "7", "4", "4", "0", "7",
      "3", "7", "0", "9", "5", "5", "1", "6", "1", "5">>

RECURSIVE StripLeadingZeros(_)
StripLeadingZeros(s) == IF s # <<>> /\ Head(s) = "0" THEN StripLeadingZeros(Tail(s)) ELSE s

\* str::parse::<usize> of a non-empty string of ASCII digits: the checked
\* accumulation fails exactly when the number is above usize::MAX, which is
\* decided on the digits, the number itself being too wide to compute.
ParseUsize(digits) ==
    LET n == StripLeadingZeros(digits) IN
    IF \/ Len(n) > Len(UsizeMaxDigits)
       \/ Len(n) = Len(UsizeMaxDigits) /\ StrLess(UsizeMaxDigits, n)
    THEN Err("invalid array index")
    ELSE Ok(DigitsValue(n))

\* Mutant of parse_qualifier: the filter value is the trimmed text behind the
\* `=`, quotes included.
ParseQualifierKeepsQuotes(raw) ==
    LET qualifier == Trim(raw) IN
    IF qualifier = <<>> THEN Err("empty segment qualifier")
    ELSE IF \A i \in 1..Len(qualifier) : IsAsciiDigit(qualifier[i])
         THEN LET index == ParseUsize(qualifier) IN
              IF index.ok THEN Ok(Index(index.v)) ELSE index
    ELSE LET eq == Find(qualifier, "=") IN
         IF eq = 0 THEN Err("must be either an array index or field=value")
         ELSE LET field == parse_token(SubSeq(qualifier, 1, eq - 1), "filter field")
                  v     == Trim(SubSeq(qualifier, eq + 1, Len(qualifier)))
              IN  IF ~field.ok THEN field
                  ELSE IF v = <<>> THEN Err("empty filter value")
                  ELSE Ok(Filter(field.v, v))

parse_qualifier(raw) ==
    LET qualifier == Trim(raw) IN
    IF qualifier = <<>> THEN Err("empty segment qualifier")
    ELSE IF \A i \in 1..Len(qualifier) : IsAsciiDigit(qualifier[i])
         THEN LET index == ParseUsize(qualifier) IN
              IF index.ok THEN Ok(Index(index.v)) ELSE index
    ELSE LET eq == Find(qualifier, "=") IN
         IF eq = 0 THEN Err("must be either an array index or field=value")
         ELSE LET field == parse_token(SubSeq(qualifier, 1, eq - 1), "filter field")
                  v     == parse_filter_value(SubSeq(qualifier, eq + 1, Len(qualifier)))
              IN  IF ~field.ok THEN field
                  ELSE IF ~v.ok THEN v
                  ELSE Ok(Filter(field.v, v.v))

parse_segment(raw_segment) ==
    LET segment == Trim(raw_segment) IN
    IF segment = <<>> THEN Err("empty path segment")
    ELSE LET open_idx == Find(segment, "[") IN
         IF open_idx = 0
         THEN LET key == parse_token(segment, "segment key") IN
              IF key.ok THEN Ok(SelectorSegment(key.v, NoQualifier)) ELSE key
         ELSE IF segment[Len(segment)] # "]" THEN Err("must end with ] when using a qualifier")
         ELSE LET key == parse_token(SubSeq(segment, 1, open_idx - 1), "segment key") IN
              IF ~key.ok THEN key
              ELSE LET qualifier_raw == Slice(segment, open_idx + 1, Len(segment) - 1) IN
                   IF ~qualifier_raw.ok THEN qualifier_raw
                   ELSE LET qualifier == parse_qualifier(qualifier_raw.v) IN
                        IF ~qualifier.ok THEN qualifier
                        ELSE Ok(SelectorSegment(key.v, qualifier.v))

\* Mutant of ScanSelectorSplitsInBrackets: a dot splits segments inside brackets too.
RECURSIVE ScanSelectorSplitsInBrackets(_, _, _, _, _)
ScanSelectorSplitsInBrackets(trimmed, idx, segment_start, in_brackets, segments) ==
    IF idx > Len(trimmed)
    THEN IF in_brackets THEN Err("unmatched [")
         ELSE LET raw_segment == Slice(trimmed, segment_start, Len(trimmed)) IN
              IF ~raw_segment.ok THEN raw_segment
              ELSE LET seg == parse_segment(raw_segment.v) IN
                   IF seg.ok THEN Ok(Append(segments, seg.v)) ELSE seg
    ELSE LET ch == trimmed[idx] IN
         IF ch = "["
         THEN IF in_brackets THEN Err("nested [ is not supported")
              ELSE ScanSelectorSplitsInBrackets(trimmed, idx + 1, segment_start, TRUE, segments)
         ELSE IF ch = "]"
         THEN IF ~in_brackets THEN Err("unmatched ]")
              ELSE ScanSelectorSplitsInBrackets(trimmed, idx + 1, segment_start, FALSE, segments)
         ELSE IF ch = "."
         THEN LET raw_segment == Slice(trimmed, segment_start, idx - 1) IN
              IF ~raw_segment.ok THEN raw_segment
              ELSE LET seg == parse_segment(raw_segment.v) IN
                   IF seg.ok THEN ScanSelectorSplitsInBrackets(trimmed, idx + 1, idx + 1, in_brackets, Append(segments, seg.v))
                   ELSE seg
         ELSE ScanSelectorSplitsInBrackets(trimmed, idx + 1, segment_start, in_brackets, segments)

\* The loop over trimmed.char_indices() and what follows it.
RECURSIVE ScanSelector(_, _, _, _, _)
ScanSelector(trimmed, idx, segment_start, in_brackets, segments) ==
    IF idx > Len(trimmed)
    THEN IF in_brackets THEN Err("unmatched [")
         ELSE LET raw_segment == Slice(trimmed, segment_start, Len(trimmed)) IN
              IF ~raw_segment.ok THEN raw_segment
              ELSE LET seg == parse_segment(raw_segment.v) IN
                   IF seg.ok THEN Ok(Append(segments, seg.v)) ELSE seg
    ELSE LET ch == trimmed[idx] IN
         IF ch = "["
         THEN IF in_brackets THEN Err("nested [ is not supported")
              ELSE ScanSelector(trimmed, idx + 1, segment_start, TRUE, segments)
         ELSE IF ch = "]"
         THEN IF ~in_brackets THEN Err("unmatched ]")
              ELSE ScanSelector(trimmed, idx + 1, segment_start, FALSE, segments)
         ELSE IF ch = "." /\ ~in_brackets
         THEN LET raw_segment == Slice(trimmed, segment_start, idx - 1) IN
              IF ~raw_segment.ok THEN raw_segment
              ELSE LET seg == parse_segment(raw_segment.v) IN
                   IF seg.ok THEN ScanSelector(trimmed, idx + 1, idx + 1, in_brackets, Append(segments, seg.v))
                   ELSE seg
         ELSE ScanSelector(trimmed, idx + 1, segment_start, in_brackets, segments)

\* Ok(v): v is the sequence `segments` of the VersionSelector.
parse_selector(text) ==
    LET trimmed == Trim(text) IN
    IF trimmed = <<>> THEN Err("Version selector cannot be empty.")
    ELSE ScanSelector(trimmed, 1, 1, FALSE, <<>>)

----------------------------------------------------------------------------
(* version_update.rs: concrete paths *)

PathStepKey(key) == [t |-> "Key", key |-> key]

PathStepIndex(index) == [t |-> "Index", index |-> index]

\* derive(PartialOrd, Ord) on PathStep: every Key is below every Index.
PathStepLess(a, b) ==
    IF a.t = "Key" /\ b.t = "Key" THEN StrLess(a.key, b.key)
    ELSE IF a.t = "Index" /\ b.t = "Index" THEN a.index < b.index
    ELSE a.t = "Key" /\ b.t = "Index"

\* Ord on Vec<PathStep>: lexicographic.
RECURSIVE PathLess(_, _)
PathLess(p, q) ==
    IF q = <<>> THEN FALSE
    ELSE IF p = <<>> THEN TRUE
    ELSE IF Head(p) = Head(q) THEN PathLess(Tail(p), Tail(q))
    ELSE PathStepLess(Head(p), Head(q))

\* Mutant of BTreeSetToVec: the elements from the greatest to the least.
RECURSIVE BTreeSetToVecReversed(_)
BTreeSetToVecReversed(S) ==
    IF S = {} THEN <<>>
    ELSE LET m == CHOOSE x \in S : \A y \in S \ {x} : PathLess(y, x)
         IN  <<m>> \o BTreeSetToVecReversed(S \ {m})

\* next_paths.into_iter().collect(): the elements of a BTreeSet in order.
RECURSIVE BTreeSetToVec(_)
BTreeSetToVec(S) ==
    IF S = {} THEN <<>>
    ELSE LET m == CHOOSE x \in S : \A y \in S \ {x} : PathLess(x, y)
         IN  <<m>> \o BTreeSetToVec(S \ {m})

Range(seq) == {seq[i] : i \in 1..Len(seq)}

----------------------------------------------------------------------------
(* Errors of the resolver and the mutators: kind, and the segment key or  *)
(* filter field the message names (<<>> when it names none).  The action  *)
(* that raises one adds the selector text and the file.                   *)

ExpectsArray(key) == [kind |-> "expects segment to be an array", name |-> key]

ExpectsObjects(key) == [kind |-> "expects all elements to be objects", name |-> key]

ExpectsStringField(field) == [kind |-> "expects filter field to be a string", name |-> field]

MatchedNoValues == [kind |-> "matched no values", name |-> <<>>]

NonStringValue == [kind |-> "matched a non-string value", name |-> <<>>]

InternalError == [kind |-> "Internal selector path resolution error", name |-> <<>>]

TypeMismatchKinds == {"expects segment to be an array", "expects all elements to be objects",
                      "expects filter field to be a string"}

----------------------------------------------------------------------------
(* serde_json::Value *)

JsonString(s) == [k |-> "String", s |-> s]

JsonNumber(n) == [k |-> "Number", n |-> n]

JsonBool(b) == [k |-> "Bool", b |-> b]

JsonNull == [k |-> "Null"]

JsonObject(m) == [k |-> "Object", m |-> m]

JsonArray(a) == [k |-> "Array", a |-> a]

RECURSIVE json_value_at_path(_, _)
json_value_at_path(root, path) ==
    IF path = <<>> THEN Some(root)
    ELSE LET step == Head(path) IN
         IF step.t = "Key"
         THEN IF root.k = "Object" /\ step.key \in DOMAIN root.m
              THEN json_value_at_path(root.m[step.key], Tail(path))
              ELSE None
         ELSE IF root.k = "Array" /\ step.index < Len(root.a)
              THEN json_value_at_path(root.a[step.index + 1], Tail(path))
              ELSE None

\* Mutant of JsonFilterElements: the loop stops at the first match.
RECURSIVE JsonFilterFirstMatch(_, _, _, _, _)
JsonFilterFirstMatch(array, key, field, v, idx) ==
    IF idx >= Len(array) THEN Ok({})
    ELSE LET element == array[idx + 1] IN
         IF element.k # "Object" THEN Err(ExpectsObjects(key))
         ELSE IF field \notin DOMAIN element.m
              THEN JsonFilterFirstMatch(array, key, field, v, idx + 1)
         ELSE IF element.m[field].k # "String" THEN Err(ExpectsStringField(field))
         ELSE IF element.m[field].s = v THEN Ok({idx})
         ELSE JsonFilterFirstMatch(array, key, field, v, idx + 1)

\* The `for (idx, element) in array.iter().enumerate()` loop of a Filter
\* qualifier, from element idx on: the indices that match, or the first error.
RECURSIVE JsonFilterElements(_, _, _, _, _)
JsonFilterElements(array, key, field, v, idx) ==
    IF idx >= Len(array) THEN Ok({})
    ELSE LET element == array[idx + 1] IN
         IF element.k # "Object" THEN Err(ExpectsObjects(key))
         ELSE IF field \notin DOMAIN element.m
              THEN JsonFilterElements(array, key, field, v, idx + 1)
         ELSE IF element.m[field].k # "String" THEN Err(ExpectsStringField(field))
         ELSE LET rest == JsonFilterElements(array, key, field, v, idx + 1) IN
              IF ~rest.ok THEN rest
              ELSE IF element.m[field].s = v THEN Ok({idx} \cup rest.v)
              ELSE rest

\* The body of `for current_path in &current_paths` for one path: the paths
\* it inserts into next_paths, or the error it bails with.
\* Mutant of JsonExpandPath: a child that is no array ends the branch under an
\* Index qualifier instead of failing.
JsonExpandPathLenient(root, current_path, segment) ==
    LET node == json_value_at_path(root, current_path) IN
    IF ~node.some THEN Ok({})
    ELSE IF ~(node.v.k = "Object" /\ segment.key \in DOMAIN node.v.m) THEN Ok({})
    ELSE LET child      == node.v.m[segment.key]
             child_path == Append(current_path, PathStepKey(segment.key))
             qualifier  == segment.qualifier
         IN  IF qualifier.t = "None" THEN Ok({child_path})
             ELSE IF qualifier.t = "Index"
             THEN IF child.k # "Array" THEN Ok({})
                  ELSE IF qualifier.index < Len(child.a)
                       THEN Ok({Append(child_path, PathStepIndex(qualifier.index))})
                       ELSE Ok({})
             ELSE IF child.k # "Array" THEN Err(ExpectsArray(segment.key))
                  ELSE LET matches == JsonFilterElements(child.a, segment.key, qualifier.field,
                                                         qualifier.value, 0)
                       IN  IF ~matches.ok THEN matches
                           ELSE Ok({Append(child_path, PathStepIndex(i)) : i \in matches.v})

JsonExpandPath(root, current_path, segment) ==
    LET node == json_value_at_path(root, current_path) IN
    IF ~node.some THEN Ok({})
    ELSE IF ~(node.v.k = "Object" /\ segment.key \in DOMAIN node.v.m) THEN Ok({})
    ELSE LET child      == node.v.m[segment.key]
             child_path == Append(current_path, PathStepKey(segment.key))
             qualifier  == segment.qualifier
         IN  IF qualifier.t = "None" THEN Ok({child_path})
             ELSE IF qualifier.t = "Index"
             THEN IF child.k # "Array" THEN Err(ExpectsArray(segment.key))
                  ELSE IF qualifier.index < Len(child.a)
                       THEN Ok({Append(child_path, PathStepIndex(qualifier.index))})
                       ELSE Ok({})
             ELSE IF child.k # "Array" THEN Err(ExpectsArray(segment.key))
                  ELSE LET matches == JsonFilterElements(child.a, segment.key, qualifier.field,
                                                         qualifier.value, 0)
                       IN  IF ~matches.ok THEN matches
                           ELSE Ok({Append(child_path, PathStepIndex(i)) : i \in matches.v})

\* The `for current_path in &current_paths` loop from position i on,
\* next_paths being what the earlier paths inserted.
RECURSIVE JsonExpandFrontier(_, _, _, _, _)
JsonExpandFrontier(root, paths, segment, i, next_paths) ==
    IF i > Len(paths) THEN Ok(BTreeSetToVec(next_paths))
    ELSE LET r == JsonExpandPath(root, paths[i], segment) IN
         IF ~r.ok THEN r
         ELSE JsonExpandFrontier(root, paths, segment, i + 1, next_paths \cup r.v)

\* Mutant of JsonResolveSegment: the index steps are one-based.
JsonResolveSegmentOneBased(root, paths, segment) ==
    LET r == JsonExpandFrontier(root, paths, segment, 1, {}) IN
    IF ~r.ok THEN r
    ELSE Ok([k \in 1..Len(r.v) |->
                [s \in 1..Len(r.v[k]) |->
                    IF s = Len(r.v[k]) /\ r.v[k][s].t = "Index"
                    THEN PathStepIndex(r.v[k][s].index + 1) ELSE r.v[k][s]]])

\* One iteration of `for segment in &selector.segments`.
JsonResolveSegment(root, paths, segment) == JsonExpandFrontier(root, paths, segment, 1, {})

\* resolve_json_paths as a whole.
RECURSIVE JsonResolveFrom(_, _, _, _)
JsonResolveFrom(root, segments, i, paths) ==
    IF i > Len(segments)
    THEN IF paths = <<>> THEN Err(MatchedNoValues) ELSE Ok(paths)
    ELSE LET r == JsonResolveSegment(root, paths, segments[i]) IN
         IF ~r.ok THEN r ELSE JsonResolveFrom(root, segments, i + 1, r.v)

resolve_json_paths(root, selector) == JsonResolveFrom(root, selector, 1, << <<>> >>)

\* Mutant of set_json_string_at_path: the terminal node is overwritten without
\* the as_str check.
RECURSIVE SetJsonAnyValue(_, _, _)
SetJsonAnyValue(current, path, version) ==
    IF path = <<>>
    THEN LET differs == current # JsonString(version) IN
         Ok([changed |-> differs, node |-> JsonString(version)])
    ELSE LET step == Head(path) IN
         IF step.t = "Key"
         THEN IF current.k # "Object" THEN Err(InternalError)
              ELSE IF step.key \notin DOMAIN current.m THEN Err(InternalError)
              ELSE LET r == SetJsonAnyValue(current.m[step.key], Tail(path), version) IN
                   IF ~r.ok THEN r
                   ELSE Ok([changed |-> r.v.changed,
                            node |-> [current EXCEPT !.m[step.key] = r.v.node]])
         ELSE IF current.k # "Array" THEN Err(InternalError)
              ELSE IF step.index >= Len(current.a) THEN Err(InternalError)
              ELSE LET r == SetJsonAnyValue(current.a[step.index + 1], Tail(path), version) IN
                   IF ~r.ok THEN r
                   ELSE Ok([changed |-> r.v.changed,
                            node |-> [current EXCEPT !.a[step.index + 1] = r.v.node]])

\* Ok(v): v.changed is the returned bool, v.node the node after the call.
RECURSIVE set_json_string_at_path(_, _, _)
set_json_string_at_path(current, path, version) ==
    IF path = <<>>
    THEN IF current.k # "String" THEN Err(NonStringValue)
         ELSE LET differs == current.s # version IN
              Ok([changed |-> differs,
                  node |-> IF differs THEN JsonString(version) ELSE current])
    ELSE LET step == Head(path) IN
         IF step.t = "Key"
         THEN IF current.k # "Object" THEN Err(InternalError)
              ELSE IF step.key \notin DOMAIN current.m THEN Err(InternalError)
              ELSE LET r == set_json_string_at_path(current.m[step.key], Tail(path), version) IN
                   IF ~r.ok THEN r
                   ELSE Ok([changed |-> r.v.changed,
                            node |-> [current EXCEPT !.m[step.key] = r.v.node]])
         ELSE IF current.k # "Array" THEN Err(InternalError)
              ELSE IF step.index >= Len(current.a) THEN Err(InternalError)
              ELSE LET r == set_json_string_at_path(current.a[step.index + 1], Tail(path), version) IN
                   IF ~r.ok THEN r
                   ELSE Ok([changed |-> r.v.changed,
                            node |-> [current EXCEPT !.a[step.index + 1] = r.v.node]])

----------------------------------------------------------------------------
(* toml::Value, the tree update_toml_file resolves against *)

TomlString(s) == [k |-> "String", s |-> s]

TomlInteger(n) == [k |-> "Integer", n |-> n]

TomlBoolean(b) == [k |-> "Boolean", b |-> b]

TomlArray(a) == [k |-> "Array", a |-> a]

TomlTable(m) == [k |-> "Table", m |-> m]

ExpectsTables(key) == [kind |-> "expects all elements to be objects", name |-> key]

RECURSIVE toml_value_at_path(_, _)
toml_value_at_path(root, path) ==
    IF path = <<>> THEN Some(root)
    ELSE LET step == Head(path) IN
         IF step.t = "Key"
         THEN IF root.k = "Table" /\ step.key \in DOMAIN root.m
              THEN toml_value_at_path(root.m[step.key], Tail(path))
              ELSE None
         ELSE IF root.k = "Array" /\ step.index < Len(root.a)
              THEN toml_value_at_path(root.a[step.index + 1], Tail(path))
              ELSE None

\* Mutant of TomlFilterElements: an element whose field is no string is
\* skipped.
RECURSIVE TomlFilterSkipsNonString(_, _, _, _, _)
TomlFilterSkipsNonString(array, key, field, v, idx) ==
    IF idx >= Len(array) THEN Ok({})
    ELSE LET element == array[idx + 1] IN
         IF element.k # "Table" THEN Err(ExpectsTables(key))
         ELSE IF field \notin DOMAIN element.m \/ element.m[field].k # "String"
              THEN TomlFilterSkipsNonString(array, key, field, v, idx + 1)
         ELSE LET rest == TomlFilterSkipsNonString(array, key, field, v, idx + 1) IN
              IF ~rest.ok THEN rest
              ELSE IF element.m[field].s = v THEN Ok({idx} \cup rest.v)
              ELSE rest

RECURSIVE TomlFilterElements(_, _, _, _, _)
TomlFilterElements(array, key, field, v, idx) ==
    IF idx >= Len(array) THEN Ok({})
    ELSE LET element == array[idx + 1] IN
         IF element.k # "Table" THEN Err(ExpectsTables(key))
         ELSE IF field \notin DOMAIN element.m
              THEN TomlFilterElements(array, key, field, v, idx + 1)
         ELSE IF element.m[field].k # "String" THEN Err(ExpectsStringField(field))
         ELSE LET rest == TomlFilterElements(array, key, field, v, idx + 1) IN
              IF ~rest.ok THEN rest
              ELSE IF element.m[field].s = v THEN Ok({idx} \cup rest.v)
              ELSE rest

\* Mutant of TomlExpandPath: an index out of range fails instead of ending the
\* branch.
TomlExpandPathStrictIndex(root, current_path, segment) ==
    LET node == toml_value_at_path(root, current_path) IN
    IF ~node.some THEN Ok({})
    ELSE IF ~(node.v.k = "Table" /\ segment.key \in DOMAIN node.v.m) THEN Ok({})
    ELSE LET child      == node.v.m[segment.key]
             child_path == Append(current_path, PathStepKey(segment.key))
             qualifier  == segment.qualifier
         IN  IF qualifier.t = "None" THEN Ok({child_path})
             ELSE IF qualifier.t = "Index"
             THEN IF child.k # "Array" THEN Err(ExpectsArray(segment.key))
                  ELSE IF qualifier.index < Len(child.a)
                       THEN Ok({Append(child_path, PathStepIndex(qualifier.index))})
                       ELSE Err(ExpectsArray(segment.key))
             ELSE IF child.k # "Array" THEN Err(ExpectsArray(segment.key))
                  ELSE LET matches == TomlFilterElements(child.a, segment.key, qualifier.field,
                                                         qualifier.value, 0)
                       IN  IF ~matches.ok THEN matches
                           ELSE Ok({Append(child_path, PathStepIndex(i)) : i \in matches.v})

TomlExpandPath(root, current_path, segment) ==
    LET node == toml_value_at_path(root, current_path) IN
    IF ~node.some THEN Ok({})
    ELSE IF ~(node.v.k = "Table" /\ segment.key \in DOMAIN node.v.m) THEN Ok({})
    ELSE LET child      == node.v.m[segment.key]
             child_path == Append(current_path, PathStepKey(segment.key))
             qualifier  == segment.qualifier
         IN  IF qualifier.t = "None" THEN Ok({child_path})
             ELSE IF qualifier.t = "Index"
             THEN IF child.k # "Array" THEN Err(ExpectsArray(segment.key))
                  ELSE IF qualifier.index < Len(child.a)
                       THEN Ok({Append(child_path, PathStepIndex(qualifier.index))})
                       ELSE Ok({})
             ELSE IF child.k # "Array" THEN Err(ExpectsArray(segment.key))
                  ELSE LET matches == TomlFilterElements(child.a, segment.key, qualifier.field,
                                                         qualifier.value, 0)
                       IN  IF ~matches.ok THEN matches
                           ELSE Ok({Append(child_path, PathStepIndex(i)) : i \in matches.v})

\* Mutant of TomlExpandFrontier: the error of one frontier path is dropped
\* and the next path is taken.
RECURSIVE TomlExpandFrontierKeepsGoing(_, _, _, _, _)
TomlExpandFrontierKeepsGoing(root, paths, segment, i, next_paths) ==
    IF i > Len(paths) THEN Ok(BTreeSetToVec(next_paths))
    ELSE LET r == TomlExpandPath(root, paths[i], segment) IN
         IF ~r.ok THEN TomlExpandFrontierKeepsGoing(root, paths, segment, i + 1, next_paths)
         ELSE TomlExpandFrontierKeepsGoing(root, paths, segment, i + 1, next_paths \cup r.v)

RECURSIVE TomlExpandFrontier(_, _, _, _, _)
TomlExpandFrontier(root, paths, segment, i, next_paths) ==
    IF i > Len(paths) THEN Ok(BTreeSetToVec(next_paths))
    ELSE LET r == TomlExpandPath(root, paths[i], segment) IN
         IF ~r.ok THEN r
         ELSE TomlExpandFrontier(root, paths, segment, i + 1, next_paths \cup r.v)

TomlResolveSegment(root, paths, segment) == TomlExpandFrontier(root, paths, segment, 1, {})

RECURSIVE TomlResolveFrom(_, _, _, _)
TomlResolveFrom(root, segments, i, paths) ==
    IF i > Len(segments)
    THEN IF paths = <<>> THEN Err(MatchedNoValues) ELSE Ok(paths)
    ELSE LET r == TomlResolveSegment(root, paths, segments[i]) IN
         IF ~r.ok THEN r ELSE TomlResolveFrom(root, segments, i + 1, r.v)

resolve_toml_paths(root, selector) == TomlResolveFrom(root, selector, 1, << <<>> >>)

----------------------------------------------------------------------------
(* toml_edit: the syntax-aware tree update_toml_file mutates.             *)
(* Item::Table and Item::ArrayOfTables are the kinds "Table" and          *)
(* "ArrayOfTables"; every other kind is a Value.  A string carries        *)
(* `decor`, the text around its token: "default" when it is what          *)
(* toml_edit prints around a value made by Value::from (one space after   *)
(* `=`, nothing behind), "source" when the file has a text of its own     *)
(* there (other whitespace, a comment behind the value).                  *)

EditString(s, decor) == [k |-> "String", s |-> s, decor |-> decor]

EditInteger(n) == [k |-> "Integer", n |-> n]

EditBoolean(b) == [k |-> "Boolean", b |-> b]

EditArray(a) == [k |-> "Array", a |-> a]

EditInlineTable(m) == [k |-> "InlineTable", m |-> m]

EditTable(m) == [k |-> "Table", m |-> m]

EditArrayOfTables(a) == [k |-> "ArrayOfTables", a |-> a]

\* What content.parse::<toml::Value>() sees of the text a toml_edit tree prints.
RECURSIVE EditToValue(_)
EditToValue(node) ==
    CASE node.k = "String" -> TomlString(node.s)
      [] node.k \in {"Table", "InlineTable"} ->
            TomlTable([key \in DOMAIN node.m |-> EditToValue(node.m[key])])
      [] node.k \in {"Array", "ArrayOfTables"} ->
            TomlArray([i \in 1..Len(node.a) |-> EditToValue(node.a[i])])
      [] OTHER -> node

WithChanged(r, node) == IF ~r.ok THEN r ELSE Ok([changed |-> r.v.changed, node |-> node])

RECURSIVE set_toml_string_in_item(_, _, _)
RECURSIVE set_toml_string_in_table(_, _, _)
RECURSIVE set_toml_string_in_value(_, _, _)

set_toml_string_in_value(v, path, version) ==
    IF path = <<>>
    THEN IF v.k # "String" THEN Err(NonStringValue)
         ELSE LET differs == v.s # version IN
              Ok([changed |-> differs,
                  node |-> IF differs THEN EditString(version, "default") ELSE v])
    ELSE LET step == Head(path) IN
         IF step.t = "Key"
         THEN IF v.k # "InlineTable" THEN Err(InternalError)
              ELSE IF step.key \notin DOMAIN v.m THEN Err(InternalError)
              ELSE LET r == set_toml_string_in_value(v.m[step.key], Tail(path), version) IN
                   IF ~r.ok THEN r ELSE WithChanged(r, [v EXCEPT !.m[step.key] = r.v.node])
         ELSE IF v.k # "Array" THEN Err(InternalError)
              ELSE IF step.index >= Len(v.a) THEN Err(InternalError)
              ELSE LET r == set_toml_string_in_value(v.a[step.index + 1], Tail(path), version) IN
                   IF ~r.ok THEN r ELSE WithChanged(r, [v EXCEPT !.a[step.index + 1] = r.v.node])

\* Mutant of set_toml_string_in_table: the check for the end of the path is
\* missing, and the match on the first step finds none.
SetTomlStringInTableUnchecked(table, path, version) ==
    IF path = <<>> THEN Err(InternalError)
    ELSE LET step == Head(path) IN
         IF step.t = "Key"
         THEN IF step.key \notin DOMAIN table.m THEN Err(InternalError)
              ELSE LET r == set_toml_string_in_item(table.m[step.key], Tail(path), version) IN
                   IF ~r.ok THEN r ELSE WithChanged(r, [table EXCEPT !.m[step.key] = r.v.node])
         ELSE Err(InternalError)

set_toml_string_in_table(table, path, version) ==
    IF path = <<>> THEN Err(NonStringValue)
    ELSE LET step == Head(path) IN
         IF step.t = "Key"
         THEN IF step.key \notin DOMAIN table.m THEN Err(InternalError)
              ELSE LET r == set_toml_string_in_item(table.m[step.key], Tail(path), version) IN
                   IF ~r.ok THEN r ELSE WithChanged(r, [table EXCEPT !.m[step.key] = r.v.node])
         ELSE Err(InternalError)

set_toml_string_in_item(item, path, version) ==
    IF path = <<>>
    THEN IF item.k \notin {"Table", "ArrayOfTables"}
         THEN set_toml_string_in_value(item, <<>>, version)
         ELSE Err(NonStringValue)
    ELSE LET step == Head(path) IN
         IF step.t = "Key"
         THEN IF item.k = "Table"
              THEN IF step.key \notin DOMAIN item.m THEN Err(InternalError)
                   ELSE LET r == set_toml_string_in_item(item.m[step.key], Tail(path), version) IN
                        IF ~r.ok THEN r ELSE WithChanged(r, [item EXCEPT !.m[step.key] = r.v.node])
              ELSE IF item.k = "InlineTable"
              THEN IF step.key \notin DOMAIN item.m THEN Err(InternalError)
                   ELSE LET r == set_toml_string_in_value(item.m[step.key], Tail(path), version) IN
                        IF ~r.ok THEN r ELSE WithChanged(r, [item EXCEPT !.m[step.key] = r.v.node])
              ELSE Err(InternalError)
         ELSE IF item.k = "ArrayOfTables"
              THEN IF step.index >= Len(item.a) THEN Err(InternalError)
                   ELSE LET r == set_toml_string_in_table(item.a[step.index + 1], Tail(path), version) IN
                        IF ~r.ok THEN r ELSE WithChanged(r, [item EXCEPT !.a[step.index + 1] = r.v.node])
              ELSE IF item.k = "Array"
              THEN IF step.index >= Len(item.a) THEN Err(InternalError)
                   ELSE LET r == set_toml_string_in_value(item.a[step.index + 1], Tail(path), version) IN
                        IF ~r.ok THEN r ELSE WithChanged(r, [item EXCEPT !.a[step.index + 1] = r.v.node])
              ELSE Err(InternalError)

set_toml_string_at_path(root, path, version) == set_toml_string_in_item(root, path, version)

----------------------------------------------------------------------------
(* Files *)

Absent == [kind |-> "absent"]

\* A path that exists and that fs::read_to_string cannot read.
Directory == [kind |-> "dir"]

File(text) == [kind |-> "file", text |-> text]

\* The text of a file: what it parses to, and what of its bytes the tree does
\* not determine.  layout "pretty" is the output of to_string_pretty followed
\* by one newline; "other" is any other formatting of the same tree.
JsonText(tree, layout) == [syntax |-> "json", layout |-> layout, tree |-> tree]

\* newline: the number of line feeds the text ends with.
TomlText(doc, newline) == [syntax |-> "toml", newline |-> newline, doc |-> doc]

\* A text that is neither JSON nor TOML.
InvalidText == [syntax |-> "invalid"]

\* serde_json::from_str
JsonFromStr(text) == IF text.syntax = "json" THEN Ok(text.tree) ELSE Err("Failed to parse JSON file")

\* content.parse::<toml::Value>()
TomlValueFromStr(text) ==
    IF text.syntax = "toml" THEN Ok(EditToValue(text.doc)) ELSE Err("Failed to parse TOML file")

\* serde_json::to_string_pretty(&value) followed by output.push('\n')
JsonOutput(tree) == JsonText(tree, "pretty")

\* A DocumentMut: the root item, and the line feeds its text ends with.
DocumentMut(root, newline) == [root |-> root, newline |-> newline]

\* content.parse::<DocumentMut>()
DocumentMutFromStr(text) ==
    IF text.syntax = "toml" THEN Ok(DocumentMut(text.doc, text.newline))
    ELSE Err("Failed to parse TOML file")

\* document.to_string()
DocumentToString(doc) == TomlText(doc.root, doc.newline)

\* Mutant of TomlOutput: the line feed is pushed whatever the text ends with.
TomlOutputAlwaysPushes(doc) ==
    LET output == DocumentToString(doc) IN
    [output EXCEPT !.newline = output.newline + 1]

\* document.to_string() followed by the push of '\n' when it is missing
TomlOutput(doc) ==
    LET output == DocumentToString(doc) IN
    IF output.newline = 0 THEN [output EXCEPT !.newline = 1] ELSE output

\* Mutant of ToAsciiLowercase: the case is kept.
KeepCase(c) == c

\* u8::to_ascii_lowercase
ToAsciiLowercase(c) ==
    CASE c = "C" -> "c" [] c = "J" -> "j" [] c = "L" -> "l" [] c = "M" -> "m"
      [] c = "N" -> "n" [] c = "O" -> "o" [] c = "S" -> "s" [] c = "T" -> "t"
      [] OTHER -> c

\* The position of the last c in s, 0 when there is none.
RFind(s, c) == IF Contains(s, c) THEN CHOOSE i \in 1..Len(s) : s[i] = c /\ \A j \in (i+1)..Len(s) : s[j] # c
               ELSE 0

\* Path::extension: the part of the file name after its last dot; none when
\* the name has no dot or only a leading one.
PathExtension(relative_path) ==
    LET slash == RFind(relative_path, "/")
        name  == SubSeq(relative_path, slash + 1, Len(relative_path))
        dot   == RFind(name, ".")
    IN  IF dot <= 1 THEN None ELSE Some(SubSeq(name, dot + 1, Len(name)))

detect_file_format(relative_path, override_format) ==
    IF override_format.some THEN Ok(override_format.v)
    ELSE LET ext == PathExtension(relative_path) IN
         IF ~ext.some THEN Err("Cannot infer file format")
         ELSE LET lower == [i \in 1..Len(ext.v) |-> ToAsciiLowercase(ext.v[i])] IN
              IF lower = <<"j", "s", "o", "n">> THEN Ok("Json")
              ELSE IF lower = <<"t", "o", "m", "l">> THEN Ok("Toml")
              ELSE Err("Cannot infer file format")

\* BTreeMap::get
MapGet(map, key) == IF key \in DOMAIN map THEN Some(map[key]) ELSE None

\* Mutant of BTreeMapKeys: the keys in insertion-like (descending) order.
RECURSIVE BTreeMapKeysDescending(_)
BTreeMapKeysDescending(S) ==
    IF S = {} THEN <<>>
    ELSE LET m == CHOOSE x \in S : \A y \in S \ {x} : StrLess(y, x)
         IN  <<m>> \o BTreeMapKeysDescending(S \ {m})

\* The keys of a BTreeMap<String, _> in iteration order.
RECURSIVE BTreeMapKeys(_)
BTreeMapKeys(S) ==
    IF S = {} THEN <<>>
    ELSE LET m == CHOOSE x \in S : \A y \in S \ {x} : StrLess(x, y)
         IN  <<m>> \o BTreeMapKeys(S \ {m})

\* Mutant of ParseSelectorsFrom: the error carries the first selector of the
\* file.
RECURSIVE ParseSelectorsFromNamesFirst(_, _, _)
ParseSelectorsFromNamesFirst(selectors, i, parsed) ==
    IF i > Len(selectors) THEN Ok(parsed)
    ELSE LET selector_text == Trim(selectors[i])
             Parsed(selector) ==
                 IF Panicked(selector) THEN selector
                 ELSE IF ~selector.ok THEN Err([selector |-> Trim(selectors[1]), message |-> selector.err])
                 ELSE ParseSelectorsFromNamesFirst(selectors, i + 1,
                          Append(parsed, [text |-> selector_text, selector |-> selector.v]))
         IN  Parsed(parse_selector(selector_text))

\* parse_selectors from position i on: Ok(parsed) or the text that failed.
RECURSIVE ParseSelectorsFrom(_, _, _)
ParseSelectorsFrom(selectors, i, parsed) ==
    IF i > Len(selectors) THEN Ok(parsed)
    ELSE LET selector_text == Trim(selectors[i])
             Parsed(selector) ==
                 IF Panicked(selector) THEN selector
                 ELSE IF ~selector.ok THEN Err([selector |-> selector_text, message |-> selector.err])
                 ELSE ParseSelectorsFrom(selectors, i + 1,
                          Append(parsed, [text |-> selector_text, selector |-> selector.v]))
         IN  Parsed(parse_selector(selector_text))

parse_selectors(selectors) == ParseSelectorsFrom(selectors, 1, <<>>)

\* An error of apply_version_updates: the kind of the root cause, the segment
\* key or filter field its message names, the selector text and the file the
\* message chain carries.
Error(kind, name, selector, file) ==
    [kind |-> kind, name |-> name, selector |-> selector, file |-> file]

Running == [done |-> FALSE]

ReturnedOk(files) == [done |-> TRUE, ok |-> TRUE, changed_files |-> files]

ReturnedErr(e) == [done |-> TRUE, ok |-> FALSE, err |-> e]

\* The call did not return: a panic unwound through it.
Unwound == [done |-> TRUE, ok |-> FALSE, panic |-> TRUE]

\* `for path in &target_paths { changed |= set_..(..)? }`, on acc, the
\* pair of `changed` and the document.
RECURSIVE SetStringAtPaths(_, _, _, _)
SetStringAtPaths(fmt, acc, paths, version) ==
    IF paths = <<>> THEN Ok(acc)
    ELSE LET r == IF fmt = "Json" THEN set_json_string_at_path(acc.node, Head(paths), version)
                  ELSE set_toml_string_at_path(acc.node, Head(paths), version)
         IN  IF ~r.ok THEN r
             ELSE SetStringAtPaths(fmt, [changed |-> acc.changed \/ r.v.changed,
                                         node |-> r.v.node], Tail(paths), version)

\* `for (selector_text, selector) in selectors` of update_json_file: each
\* selector is resolved against the value as the earlier ones left it.
RECURSIVE JsonApplySelectors(_, _, _)
JsonApplySelectors(acc, selectors, version) ==
    IF selectors = <<>> THEN Ok(acc)
    ELSE LET target_paths_ == resolve_json_paths(acc.node, Head(selectors).selector) IN
         IF ~target_paths_.ok THEN target_paths_
         ELSE LET r == SetStringAtPaths("Json", acc, target_paths_.v, version) IN
              IF ~r.ok THEN r ELSE JsonApplySelectors(r.v, Tail(selectors), version)

\* update_json_file up to `if !changed`, as a function of the text.
update_json_file(text, selectors, version) ==
    LET v == JsonFromStr(text) IN
    IF ~v.ok THEN Err([kind |-> v.err, name |-> <<>>])
    ELSE JsonApplySelectors([changed |-> FALSE, node |-> v.v], selectors, version)

\* `for (selector_text, selector) in selectors` of update_toml_file: each
\* selector is resolved against source_value, the document is mutated.
RECURSIVE TomlApplySelectors(_, _, _, _)
TomlApplySelectors(source_value, acc, selectors, version) ==
    IF selectors = <<>> THEN Ok(acc)
    ELSE LET target_paths_ == resolve_toml_paths(source_value, Head(selectors).selector) IN
         IF ~target_paths_.ok THEN target_paths_
         ELSE LET r == SetStringAtPaths("Toml", acc, target_paths_.v, version) IN
              IF ~r.ok THEN r ELSE TomlApplySelectors(source_value, r.v, Tail(selectors), version)

\* update_toml_file up to `if !changed`, as a function of the text.
update_toml_file(text, selectors, version) ==
    LET source_value == TomlValueFromStr(text)
        doc          == DocumentMutFromStr(text)
    IN  IF ~source_value.ok THEN Err([kind |-> source_value.err, name |-> <<>>])
        ELSE IF ~doc.ok THEN Err([kind |-> doc.err, name |-> <<>>])
        ELSE TomlApplySelectors(source_value.v, [changed |-> FALSE, node |-> doc.v.root],
                                selectors, version)

Unset == [k |-> "unset"]

UnsetText == [syntax |-> "unset"]

----------------------------------------------------------------------------
(* apply_version_updates, one step at a time *)

\* The order of `for (relative_path, selectors) in version_updates`.
FileOrder == BTreeMapKeys(DOMAIN version_updates)

relative_path == FileOrder[fileIdx]

args == <<next_version, version_updates, format_overrides>>

\* The state of the caller, run_with_runner, which apply_version_updates
\* cannot reach.
caller == <<rpc, config, tokens, calls, latest_tag, next_release, managed_pr, outcome>>

\* apply_version_updates is called on its own, not by run_with_runner.
Standalone ==
    /\ rpc = "none"
    /\ config = None
    /\ tokens = None
    /\ calls = <<>>
    /\ latest_tag = None
    /\ next_release = None
    /\ managed_pr = None
    /\ outcome = [done |-> FALSE]

\* `bail!` and `?`: the call returns the error; nothing else happens.
Bail(e) ==
    /\ result' = ReturnedErr(e)
    /\ pc' = "done"

\* `if !file_path.exists() { bail!(..) }`
CheckExists ==
    /\ pc = "exists"
    /\ ioLog' = Append(ioLog, [op |-> "exists", file |-> relative_path])
    /\ IF disk[relative_path].kind = "absent"
       THEN Bail(Error("was not found", <<>>, None, relative_path))
       ELSE pc' = "detect" /\ UNCHANGED result
    /\ UNCHANGED <<disk, args, caller, fileIdx, format, content, parsed_selectors, value, document,
                   selIdx, segIdx, current_paths, target_paths, pathIdx, changed,
                   changed_files, callNo, disk0>>

\* `let format = detect_file_format(..)?`
DetectFormat ==
    /\ pc = "detect"
    /\ LET r == detect_file_format(relative_path, MapGet(format_overrides, relative_path)) IN
       IF ~r.ok
       THEN Bail(Error(r.err, <<>>, None, relative_path)) /\ UNCHANGED format
       ELSE format' = r.v /\ pc' = "read" /\ UNCHANGED result
    /\ UNCHANGED <<disk, args, caller, fileIdx, content, parsed_selectors, value, document,
                   selIdx, segIdx, current_paths, target_paths, pathIdx, changed,
                   changed_files, callNo, disk0, ioLog>>

\* `let content = fs::read_to_string(&file_path)..?`
ReadFile ==
    /\ pc = "read"
    /\ ioLog' = Append(ioLog, [op |-> "read", file |-> relative_path])
    /\ IF disk[relative_path].kind # "file"
       THEN Bail(Error("Failed to read", <<>>, None, relative_path)) /\ UNCHANGED content
       ELSE content' = disk[relative_path].text /\ pc' = "parse_selectors" /\ UNCHANGED result
    /\ UNCHANGED <<disk, args, caller, fileIdx, format, parsed_selectors, value, document,
                   selIdx, segIdx, current_paths, target_paths, pathIdx, changed,
                   changed_files, callNo, disk0>>

\* `let parsed_selectors = parse_selectors(selectors, &file_path)?`
ParseSelectors ==
    /\ pc = "parse_selectors"
    /\ LET Parsed(r) ==
               IF Panicked(r)
               THEN result' = Unwound /\ pc' = "done" /\ UNCHANGED parsed_selectors
               ELSE IF ~r.ok
               THEN Bail(Error("Invalid version selector", <<>>, Some(r.err.selector), relative_path))
                    /\ UNCHANGED parsed_selectors
               ELSE parsed_selectors' = r.v /\ pc' = "parse_document" /\ UNCHANGED result
       IN  Parsed(parse_selectors(version_updates[relative_path]))
    /\ UNCHANGED <<disk, args, caller, fileIdx, format, content, value, document,
                   selIdx, segIdx, current_paths, target_paths, pathIdx, changed,
                   changed_files, callNo, disk0, ioLog>>

\* The head of update_json_file / update_toml_file: the document is parsed,
\* `changed` starts false and the selector loop is entered.
ParseDocument ==
    /\ pc = "parse_document"
    /\ LET v == IF format = "Json" THEN JsonFromStr(content) ELSE TomlValueFromStr(content)
           d == IF format = "Json" THEN Ok(DocumentMut(Unset, 0)) ELSE DocumentMutFromStr(content)
       IN  IF ~v.ok
           THEN Bail(Error(v.err, <<>>, None, relative_path))
                /\ UNCHANGED <<value, document, changed, selIdx, segIdx, current_paths>>
           ELSE IF ~d.ok
           THEN Bail(Error(d.err, <<>>, None, relative_path))
                /\ UNCHANGED <<value, document, changed, selIdx, segIdx, current_paths>>
           ELSE /\ value' = v.v
                /\ document' = d.v
                /\ changed' = FALSE
                /\ selIdx' = 1
                /\ segIdx' = 1
                /\ current_paths' = << <<>> >>
                /\ pc' = IF parsed_selectors = <<>> THEN "finish" ELSE "resolve"
                /\ UNCHANGED result
    /\ UNCHANGED <<disk, args, caller, fileIdx, format, content, parsed_selectors,
                   target_paths, pathIdx, changed_files, callNo, disk0, ioLog>>

\* One iteration of `for segment in &selector.segments` in resolve_json_paths
\* or resolve_toml_paths.
ResolveSegment ==
    /\ pc = "resolve"
    /\ LET entry   == parsed_selectors[selIdx]
           segment == entry.selector[segIdx]
           r == IF format = "Json" THEN JsonResolveSegment(value, current_paths, segment)
                ELSE TomlResolveSegment(value, current_paths, segment)
       IN  IF ~r.ok
           THEN Bail(Error(r.err.kind, r.err.name, Some(entry.text), relative_path))
                /\ UNCHANGED <<current_paths, segIdx>>
           ELSE /\ current_paths' = r.v
                /\ IF segIdx < Len(entry.selector)
                   THEN segIdx' = segIdx + 1 /\ pc' = "resolve"
                   ELSE segIdx' = segIdx /\ pc' = "resolved"
                /\ UNCHANGED result
    /\ UNCHANGED <<disk, args, caller, fileIdx, format, content, parsed_selectors, value, document,
                   selIdx, target_paths, pathIdx, changed, changed_files, callNo, disk0, ioLog>>


\* The end of the resolver: `if current_paths.is_empty() { bail!(..) }`,
\* else the paths are returned and the loop over them is entered.
ResolveFinish ==
    /\ pc = "resolved"
    /\ IF current_paths = <<>>
       THEN Bail(Error(MatchedNoValues.kind, <<>>, Some(parsed_selectors[selIdx].text), relative_path))
            /\ UNCHANGED <<target_paths, pathIdx>>
       ELSE target_paths' = current_paths /\ pathIdx' = 1 /\ pc' = "set" /\ UNCHANGED result
    /\ UNCHANGED <<disk, args, caller, fileIdx, format, content, parsed_selectors, value, document,
                   selIdx, segIdx, current_paths, changed, changed_files, callNo, disk0, ioLog>>

\* Mutant of OrAssign: `changed = ..` for `changed |= ..`.
Assign(a, b) == b

\* `changed |= ..`
OrAssign(a, b) == a \/ b

\* Mutant of VecPush: the element is put in front.
VecPushFront(vec, x) == <<x>> \o vec

\* Vec::push
VecPush(vec, x) == Append(vec, x)

\* Mutant of SetStringAtPath: every changed leaf is written through to the
\* file at once.
SetStringAtPathWritesThrough ==
    /\ pc = "set"
    /\ LET path == target_paths[pathIdx]
           r == IF format = "Json" THEN set_json_string_at_path(value, path, next_version)
                ELSE set_toml_string_at_path(document.root, path, next_version)
       IN  IF ~r.ok
           THEN Bail(Error(r.err.kind, <<>>, Some(parsed_selectors[selIdx].text), relative_path))
                /\ UNCHANGED <<value, document, changed, pathIdx, selIdx, segIdx, current_paths, disk>>
           ELSE /\ IF format = "Json"
                   THEN value' = r.v.node /\ UNCHANGED document
                   ELSE document' = [document EXCEPT !.root = r.v.node] /\ UNCHANGED value
                /\ disk' = IF r.v.changed
                           THEN [disk EXCEPT ![relative_path] =
                                    File(IF format = "Json" THEN JsonOutput(r.v.node)
                                         ELSE TomlOutput(DocumentMut(r.v.node, document.newline)))]
                           ELSE disk
                /\ changed' = OrAssign(changed, r.v.changed)
                /\ IF pathIdx < Len(target_paths)
                   THEN pathIdx' = pathIdx + 1 /\ pc' = "set"
                        /\ UNCHANGED <<selIdx, segIdx, current_paths>>
                   ELSE IF selIdx < Len(parsed_selectors)
                   THEN selIdx' = selIdx + 1 /\ segIdx' = 1 /\ current_paths' = << <<>> >>
                        /\ pc' = "resolve" /\ UNCHANGED pathIdx
                   ELSE pc' = "finish" /\ UNCHANGED <<pathIdx, selIdx, segIdx, current_paths>>
                /\ UNCHANGED result
    /\ UNCHANGED <<args, caller, fileIdx, format, content, parsed_selectors,
                   target_paths, changed_files, callNo, disk0, ioLog>>

\* One iteration of `for path in &target_paths`:
\* `changed |= set_json_string_at_path(..)?` (set_toml_string_at_path for TOML),
\* then the next path, the next selector, or the end of both loops.
SetStringAtPath ==
    /\ pc = "set"
    /\ LET path == target_paths[pathIdx]
           r == IF format = "Json" THEN set_json_string_at_path(value, path, next_version)
                ELSE set_toml_string_at_path(document.root, path, next_version)
       IN  IF ~r.ok
           THEN Bail(Error(r.err.kind, <<>>, Some(parsed_selectors[selIdx].text), relative_path))
                /\ UNCHANGED <<value, document, changed, pathIdx, selIdx, segIdx, current_paths>>
           ELSE /\ IF format = "Json"
                   THEN value' = r.v.node /\ UNCHANGED document
                   ELSE document' = [document EXCEPT !.root = r.v.node] /\ UNCHANGED value
                /\ changed' = OrAssign(changed, r.v.changed)
                /\ IF pathIdx < Len(target_paths)
                   THEN pathIdx' = pathIdx + 1 /\ pc' = "set"
                        /\ UNCHANGED <<selIdx, segIdx, current_paths>>
                   ELSE IF selIdx < Len(parsed_selectors)
                   THEN selIdx' = selIdx + 1 /\ segIdx' = 1 /\ current_paths' = << <<>> >>
                        /\ pc' = "resolve" /\ UNCHANGED pathIdx
                   ELSE pc' = "finish" /\ UNCHANGED <<pathIdx, selIdx, segIdx, current_paths>>
                /\ UNCHANGED result
    /\ UNCHANGED <<disk, args, caller, fileIdx, format, content, parsed_selectors,
                   target_paths, changed_files, callNo, disk0, ioLog>>

\* The next iteration of the loop over version_updates, or its end.
NextFile ==
    IF fileIdx < Len(FileOrder)
    THEN fileIdx' = fileIdx + 1 /\ pc' = "exists"
    ELSE fileIdx' = fileIdx /\ pc' = "return"

\* Mutant of ReturnUnchanged: the early return is missing, the file is
\* serialized and written although nothing changed.
ReturnUnchangedRewrites ==
    /\ pc = "finish"
    /\ ~changed
    /\ LET output == IF format = "Json" THEN JsonOutput(value) ELSE TomlOutput(document) IN
       disk' = [disk EXCEPT ![relative_path] = File(output)]
    /\ NextFile
    /\ UNCHANGED <<args, caller, format, content, parsed_selectors, value, document,
                   selIdx, segIdx, current_paths, target_paths, pathIdx, changed,
                   changed_files, result, callNo, disk0, ioLog>>

\* `if !changed { return Ok(false); }`: nothing is written or recorded.
ReturnUnchanged ==
    /\ pc = "finish"
    /\ ~changed
    /\ NextFile
    /\ UNCHANGED <<disk, args, caller, format, content, parsed_selectors, value, document,
                   selIdx, segIdx, current_paths, target_paths, pathIdx, changed,
                   changed_files, result, callNo, disk0, ioLog>>

\* The tail of update_json_file / update_toml_file when `changed`: the tree
\* is serialized and written; then `changed_files.push(..)`.
WriteFile ==
    /\ pc = "finish"
    /\ changed
    /\ LET output == IF format = "Json" THEN JsonOutput(value) ELSE TomlOutput(document) IN
       disk' = [disk EXCEPT ![relative_path] = File(output)]
    /\ ioLog' = Append(ioLog, [op |-> "write", file |-> relative_path])
    /\ changed_files' = VecPush(changed_files, relative_path)
    /\ NextFile
    /\ UNCHANGED <<args, caller, format, content, parsed_selectors, value, document,
                   selIdx, segIdx, current_paths, target_paths, pathIdx, changed,
                   result, callNo, disk0>>

\* `Ok(UpdateReport { changed_files })`
ReturnOk ==
    /\ pc = "return"
    /\ result' = ReturnedOk(changed_files)
    /\ pc' = "done"
    /\ UNCHANGED <<disk, args, caller, fileIdx, format, content, parsed_selectors, value, document,
                   selIdx, segIdx, current_paths, target_paths, pathIdx, changed,
                   changed_files, callNo, disk0, ioLog>>

\* The state in which a call of apply_version_updates starts.
Entry ==
    /\ pc = (IF DOMAIN version_updates = {} THEN "return" ELSE "exists")
    /\ fileIdx = 1
    /\ format = "unset"
    /\ content = UnsetText
    /\ parsed_selectors = <<>>
    /\ value = Unset
    /\ document = DocumentMut(Unset, 0)
    /\ selIdx = 1
    /\ segIdx = 1
    /\ current_paths = <<>>
    /\ target_paths = <<>>
    /\ pathIdx = 1
    /\ changed = FALSE
    /\ changed_files = <<>>
    /\ result = Running
    /\ ioLog = <<>>

\* Calls of one scenario (the release is retried with the same configuration).
MaxCalls == 2

\* apply_version_updates is called again with the same arguments on the
\* repository the previous, successful call left.
CallAgain ==
    /\ pc = "done"
    /\ result.ok
    /\ callNo < MaxCalls
    /\ callNo' = callNo + 1
    /\ disk0' = disk
    /\ pc' = (IF DOMAIN version_updates = {} THEN "return" ELSE "exists")
    /\ fileIdx' = 1
    /\ format' = "unset"
    /\ content' = UnsetText
    /\ parsed_selectors' = <<>>
    /\ value' = Unset
    /\ document' = DocumentMut(Unset, 0)
    /\ selIdx' = 1
    /\ segIdx' = 1
    /\ current_paths' = <<>>
    /\ target_paths' = <<>>
    /\ pathIdx' = 1
    /\ changed' = FALSE
    /\ changed_files' = <<>>
    /\ result' = Running
    /\ ioLog' = <<>>
    /\ UNCHANGED <<disk, args, caller>>

Next ==
    \/ CheckExists
    \/ DetectFormat
    \/ ReadFile
    \/ ParseSelectors
    \/ ParseDocument
    \/ ResolveSegment
    \/ ResolveFinish
    \/ SetStringAtPath
    \/ ReturnUnchanged
    \/ WriteFile
    \/ ReturnOk
    \/ CallAgain

----------------------------------------------------------------------------
(* Scenarios: the repositories and configurations the calls start from *)

\* Longest array of a generated document.
MaxArrayLen == 2

\* The version being released, and a version a file holds before.
NewVersion == <<"9">>

OldVersion == <<"1">>

JsonPath == <<"a", ".", "j", "s", "o", "n">>

TomlPath == <<"b", ".", "t", "o", "m", "l">>

\* A mapping with the keys that are given (an absent key is None).
Mapping2(k1, v1, k2, v2) ==
    [key \in (IF v1.some THEN {k1} ELSE {}) \cup (IF v2.some THEN {k2} ELSE {})
        |-> IF key = k1 THEN v1.v ELSE v2.v]

Package(n, v) == JsonObject(Mapping2(<<"n">>, n, <<"v">>, v))

\* Elements of a `p` array: a package {n: name, v: version} that matches a
\* filter on n or not, lacks n or v, or has a non-string n or v; and an
\* element that is no mapping.
FlatElems ==
    { Package(Some(JsonString(<<"x">>)), Some(JsonString(OldVersion))),
      Package(Some(JsonString(<<"x">>)), Some(JsonString(NewVersion))),
      Package(Some(JsonString(<<"x">>)), Some(JsonNumber(1))),
      Package(Some(JsonString(<<"x">>)), None),
      Package(Some(JsonString(<<"y">>)), Some(JsonString(OldVersion))),
      Package(None, Some(JsonString(OldVersion))),
      Package(Some(JsonNumber(1)), Some(JsonString(OldVersion))),
      JsonNumber(1) }

SeqsUpTo(S, n) == UNION {[1..k -> S] : k \in 0..n}

\* Documents {p: [..]} and documents without an array.
FlatTrees ==
    {JsonObject(<<"p">> :> JsonArray(a)) : a \in SeqsUpTo(FlatElems, MaxArrayLen)}
    \cup {JsonObject(Mapping2(<<"p">>, p, <<"v">>, v)) :
            p \in {None, Some(JsonString(OldVersion)),
                   Some(Package(Some(JsonString(<<"x">>)), Some(JsonString(OldVersion))))},
            v \in {None, Some(JsonString(OldVersion)), Some(JsonString(NewVersion)),
                   Some(JsonBool(TRUE)), Some(JsonNull)}}

\* Elements {n: name, d: dependencies} of a `p` array whose `d` is itself an
\* array of packages, a string, or absent.
NestedElems ==
    {JsonObject(Mapping2(<<"n">>, Some(JsonString(n)), <<"d">>, d)) :
        n \in {<<"x">>, <<"y">>},
        d \in {None, Some(JsonString(OldVersion))}
              \cup {Some(JsonArray(<<e>>)) :
                      e \in {Package(Some(JsonString(<<"x">>)), Some(JsonString(OldVersion))),
                             Package(Some(JsonNumber(1)), Some(JsonString(OldVersion)))}}}

NestedTrees == {JsonObject(<<"p">> :> JsonArray(a)) : a \in SeqsUpTo(NestedElems, MaxArrayLen)}

\* The TOML document that denotes a JSON tree, in block style: a mapping is a
\* [table], a non-empty array of mappings is an [[array of tables]]; inside an
\* inline array every mapping is an inline table.
RECURSIVE JsonToEditValue(_)
JsonToEditValue(tree) ==
    CASE tree.k = "String" -> EditString(tree.s, "source")
      [] tree.k = "Number" -> EditInteger(tree.n)
      [] tree.k = "Bool"   -> EditBoolean(tree.b)
      [] tree.k = "Object" -> EditInlineTable([key \in DOMAIN tree.m |-> JsonToEditValue(tree.m[key])])
      [] tree.k = "Array"  -> EditArray([i \in 1..Len(tree.a) |-> JsonToEditValue(tree.a[i])])

RECURSIVE JsonToEditItem(_)
JsonToEditItem(tree) ==
    CASE tree.k = "Object" -> EditTable([key \in DOMAIN tree.m |-> JsonToEditItem(tree.m[key])])
      [] tree.k = "Array" /\ tree.a # <<>> /\ (\A i \in 1..Len(tree.a) : tree.a[i].k = "Object") ->
            EditArrayOfTables([i \in 1..Len(tree.a) |-> JsonToEditItem(tree.a[i])])
      [] OTHER -> JsonToEditValue(tree)

\* Selector lists for the flat documents, as configured (untrimmed) texts.
FlatSelectorLists ==
    { << <<"p", "[", "n", "=", "x", "]", ".", "v">> >>,
      << <<"p", "[", "n", "=", "x", "]", ".", "n">> >>,
      << <<"p", "[", "n", "=", "x", "]">> >>,
      << <<"p", "[", "0", "]", ".", "v">> >>,
      << <<" ", "p", "[", "1", "]", ".", "v">> >>,
      << <<"p", ".", "v">> >>,
      << <<"v">> >>,
      << <<"p">> >>,
      << <<"p", "[", "0", "]">> >>,
      << <<"p", "[", "n", "=", "x", "]", ".", "n">>, <<"p", "[", "n", "=", "x", "]", ".", "v">> >>,
      << <<"p", "[", "0", "]", ".", "v">>, <<"p", "[", "n", "=", "x", "]", ".", "v">> >>,
      << <<"p", "[", "0", "]", ".", "v">>, <<"p", "[", "1", "]", ".", "n">> >>,
      << <<"p", "[", "0", "]", ".", "v">>, <<"p", "[", "x", "]">> >> }

NestedSelectorLists ==
    { << <<"p", "[", "n", "=", "x", "]", ".", "d", "[", "n", "=", "x", "]", ".", "v">> >>,
      << <<"p", "[", "n", "=", "x", "]", ".", "d", "[", "0", "]", ".", "v">> >>,
      << <<"p", "[", "0", "]", ".", "d", "[", "n", "=", "x", "]", ".", "n">> >> }

\* The same TOML document with the given text around every string.
RECURSIVE WithDecor(_, _)
WithDecor(node, decor) ==
    CASE node.k = "String" -> EditString(node.s, decor)
      [] node.k \in {"Table", "InlineTable"} ->
            [node EXCEPT !.m = [key \in DOMAIN node.m |-> WithDecor(node.m[key], decor)]]
      [] node.k \in {"Array", "ArrayOfTables"} ->
            [node EXCEPT !.a = [i \in 1..Len(node.a) |-> WithDecor(node.a[i], decor)]]
      [] OTHER -> node

\* TOML has no null.
RECURSIVE TomlDenotable(_)
TomlDenotable(tree) ==
    CASE tree.k = "Null"   -> FALSE
      [] tree.k = "Object" -> \A key \in DOMAIN tree.m : TomlDenotable(tree.m[key])
      [] tree.k = "Array"  -> \A i \in 1..Len(tree.a) : TomlDenotable(tree.a[i])
      [] OTHER -> TRUE

\* One file and its selectors: a JSON file in some non-canonical formatting,
\* or the TOML file of the same tree, without a final line feed; and TOML
\* files in plain formatting that end with no, one or two line feeds.
DocCases ==
    LET Both(trees, lists) ==
            {[path |-> JsonPath, text |-> JsonText(t, "other"), selectors |-> l] :
                t \in trees, l \in lists}
            \cup {[path |-> TomlPath, text |-> TomlText(JsonToEditItem(t), 0), selectors |-> l] :
                t \in {u \in trees : TomlDenotable(u)}, l \in lists}
        Plain(trees, lists) ==
            {[path |-> TomlPath, text |-> TomlText(WithDecor(JsonToEditItem(t), "default"), nl),
              selectors |-> l] :
                t \in {u \in trees : TomlDenotable(u)}, l \in lists, nl \in {0, 1, 2}}
    IN  Both(FlatTrees, FlatSelectorLists) \cup Both(NestedTrees, NestedSelectorLists)
        \cup Plain({t \in FlatTrees : t.m # <<>> /\ (<<"p">> \in DOMAIN t.m => t.m[<<"p">>].k # "Array")},
                   FlatSelectorLists)

\* One configured file: its state in the repository and its selectors.
InitDocs ==
    /\ \E c \in DocCases \cup
               {[path |-> JsonPath, state |-> st, selectors |-> << l >>] :
                    st \in {Directory, File(InvalidText)}, l \in {<<"v">>, <<"v", "[">>}} :
          /\ disk = (c.path :> (IF "state" \in DOMAIN c THEN c.state ELSE File(c.text)))
          /\ version_updates = (c.path :> c.selectors)
    /\ format_overrides = <<>>

\* Most files of one configuration.
MaxFiles == 3

\* Relative paths; in byte order "C.JSON" < "a.json" < "b.toml" < "d.lock".
LockPath == <<"d", ".", "l", "o", "c", "k">>

UpperPath == <<"C", ".", "J", "S", "O", "N">>

Paths == {JsonPath, TomlPath, UpperPath, LockPath}

\* The format of the text a path holds unless the case says otherwise.
NativeFormat(path) == IF path \in {TomlPath, LockPath} THEN "Toml" ELSE "Json"

OtherFormat(fmt) == IF fmt = "Json" THEN "Toml" ELSE "Json"

\* What happens to one file of a configuration of several.
FileCases == {"changed", "unchanged", "absent", "late_fail", "syntax", "wrong_format", "overridden"}

VersionDoc(fmt, version) ==
    LET tree == JsonObject(<<"v">> :> JsonString(version)) IN
    IF fmt = "Json" THEN JsonText(tree, "other") ELSE TomlText(JsonToEditItem(tree), 0)

CaseState(path, case) ==
    IF case = "absent" THEN Absent
    ELSE IF case = "unchanged" THEN File(VersionDoc(NativeFormat(path), NewVersion))
    ELSE IF case = "overridden" THEN File(VersionDoc(OtherFormat(NativeFormat(path)), OldVersion))
    ELSE File(VersionDoc(NativeFormat(path), OldVersion))

CaseSelectors(case) ==
    IF case = "late_fail" THEN << <<"v">>, <<"w">> >>
    ELSE IF case = "syntax" THEN << <<"v">>, <<"v", "[", "x", "]">> >>
    ELSE << <<"v">> >>

\* The override of a path: none where the extension tells the format of the
\* text, the format of the text elsewhere; the other way round for
\* "wrong_format".
CaseOverride(path, case) ==
    IF case = "overridden" THEN Some(OtherFormat(NativeFormat(path)))
    ELSE IF case = "wrong_format"
    THEN IF path = LockPath THEN None ELSE Some(OtherFormat(NativeFormat(path)))
    ELSE IF path = LockPath THEN Some("Toml") ELSE None

InitFiles ==
    \E F \in SUBSET Paths :
      /\ Cardinality(F) <= MaxFiles
      /\ \E cases \in [F -> FileCases] :
            /\ disk = [f \in F |-> CaseState(f, cases[f])]
            /\ version_updates = [f \in F |-> CaseSelectors(cases[f])]
            /\ format_overrides = [f \in {g \in F : CaseOverride(g, cases[g]).some}
                                      |-> CaseOverride(f, cases[f]).v]

\* Paths with an extension in mixed case, with none (no dot, a dot only in
\* front of the name or in a directory name) and with one that is neither
\* json nor toml.
ExtensionPaths ==
    { <<"b", ".", "T", "o", "M", "L">>,
      <<"c">>,
      <<"j", "s", "o", "n">>,
      <<".", "j", "s", "o", "n">>,
      <<"a", "/", ".", "t", "o", "m", "l">>,
      <<"a", ".", "t", "o", "m", "l", "/", "c">>,
      <<"a", ".", "j", "s", "o", "n", ".", "l", "o", "c", "k">>,
      <<"a", ".", "t", "o", "m", "l", ".">> }

\* One configured file of either format under such a path, with an override
\* or without.
InitFormats ==
    \E path \in ExtensionPaths, o \in {None, Some("Json"), Some("Toml")}, fmt \in {"Json", "Toml"} :
        /\ disk = (path :> File(VersionDoc(fmt, OldVersion)))
        /\ version_updates = (path :> << <<"v">> >>)
        /\ format_overrides = (IF o.some THEN (path :> o.v) ELSE <<>>)

Init ==
    /\ InitDocs \/ InitFiles \/ InitFormats
    /\ next_version = NewVersion
    /\ callNo = 1
    /\ disk0 = disk
    /\ Entry
    /\ Standalone

Spec == Init /\ [][Next]_vars

----------------------------------------------------------------------------
(* Scenarios of the selector parser: one file, one selector text *)

\* Longest text of a qualifier, and longest selector text, that are tried in
\* full.
MaxQualifierLen == 5

MaxSelectorLen == 4

QualifierChars == {"a", "1", "=", " ", "'", "."}

SelectorChars == {"a", ".", "[", "]", " ", "1", "="}

\* Selectors of two and three segments, with two qualifiers, a negative
\* index, several `=`, double and mixed quotes, brackets in a filter value,
\* a lone quote, quotes in quotes, blanks in quotes, nothing in quotes,
\* indices above usize::MAX, an index of 21 digits, and whitespace around
\* every part and inside a key and a quoted value.
LongSelectors ==
    { <<"a", "[", "1", "]", ".", "a">>,
      <<" ", "a", " ", "[", " ", "a", " ", "=", "\t", "a", " ", "]", " ", ".", " ", "a", " ",
        "[", "\t", "1", " ", "]", " ">>,
      <<"a", " ", "a", "[", "a", "=", "'", " ", "a", " ", "a", "'", " ", "]">>,
      <<"a", ".", "a", "[", "1", "]">>,
      <<"a", "[", "a", "=", "a", "]", ".", "a">>,
      <<"a", "[", "a", "=", "'", "a", "'", "]", ".", "1">>,
      <<"a", "[", " ", "1", " ", "]", ".", "a">>,
      <<" ", "a", " ", ".", " ", "a", " ">>,
      <<"a", ".", "a", ".", "a">>,
      <<"a", "[", "1", "]", "a">>,
      <<"a", "[", "1", "]", "[", "1", "]">>,
      <<"a", "[", "a", "=", "a", "]", "[", "1", "]">>,
      <<"a", "[", "1", "]", "[", "a", "=", "a", "]">>,
      <<"a", "[", "-", "1", "]">>,
      <<"a", "[", "a", "=", "a", "=", "a", "]">>,
      <<"a", "[", "a", "=", "\"", "a", "\"", "]">>,
      <<"a", "[", "a", "=", "'", "a", "\"", "]">>,
      <<"a", "[", "a", "=", "\"", "]", "\"", "]">>,
      <<"a", "[", "a", ".", "a", "=", "a", "]">>,
      <<"a", "[", "a", "=", "a", ".", "a", "]">>,
      <<"a", "[", ".", "]", ".", "a">>,
      <<"a", "[", "a", "=", "'", "]", "[", "'", "]">>,
      <<"a", "[", "a", " ", "=", " ", "'", " ", "'", "]">>,
      <<"a", "[", "a", "=", "\"", "]">>,
      <<"a", "[", "a", "=", "\"", "'", "a", "'", "\"", "]">>,
      <<"a", "[", "a", "=", "'", " ", "a", " ", "'", "]">>,
      <<"a", "[", "a", "=", "\"", "\"", "]">>,
      <<"a", "[">> \o UsizeMaxDigits \o <<"0", "]">>,
      <<"a", "[", "1", "8", "4", "4", "6", "7", "4", "4", "0", "7",
        "3", "7", "0", "9", "5", "5", "1", "6", "1", "6", "]">>,
      <<"a", "[", "0", "0", "0", "0", "0", "0", "0", "0", "0", "0",
        "0", "0", "0", "0", "0", "0", "0", "0", "0", "0", "1", "]", ".", "1">> }

\* Every text over SelectorChars, every a[q] with q over QualifierChars, and
\* the long selectors.
SelectorTexts ==
    SeqsUpTo(SelectorChars, MaxSelectorLen)
    \cup {<<"a", "[">> \o q \o <<"]">> : q \in SeqsUpTo(QualifierChars, MaxQualifierLen)}
    \cup LongSelectors

\* {"1": "1", "a": [{"a": "1"}, {"a": "a", "1": "1"}]}
SelectorDoc ==
    JsonObject(Mapping2(<<"1">>, Some(JsonString(OldVersion)),
                        <<"a">>, Some(JsonArray(<<JsonObject(<<"a">> :> JsonString(OldVersion)),
                                                  JsonObject(Mapping2(<<"a">>, Some(JsonString(<<"a">>)),
                                                                      <<"1">>, Some(JsonString(OldVersion))))>>))))

InitSelectors ==
    /\ \E text \in SelectorTexts :
          version_updates = (JsonPath :> <<text>>)
    /\ disk = (JsonPath :> File(JsonText(SelectorDoc, "other")))
    /\ format_overrides = <<>>
    /\ next_version = NewVersion
    /\ callNo = 1
    /\ disk0 = disk
    /\ Entry
    /\ Standalone

\* apply_version_updates on one file with an arbitrary selector text.
SpecSelectors == InitSelectors /\ [][Next]_vars

----------------------------------------------------------------------------
(* release_pr.rs: the release calculation *)

StartsWith(s, prefix) == Len(prefix) <= Len(s) /\ SubSeq(s, 1, Len(prefix)) = prefix

EndsWith(s, suffix) ==
    Len(suffix) <= Len(s) /\ SubSeq(s, Len(s) - Len(suffix) + 1, Len(s)) = suffix

\* str::split(char): the pieces between the occurrences of c.
RECURSIVE Split(_, _)
Split(s, c) ==
    LET at == Find(s, c) IN
    IF at = 0 THEN <<s>>
    ELSE <<SubSeq(s, 1, at - 1)>> \o Split(SubSeq(s, at + 1, Len(s)), c)

\* semver::Version without pre-release and build parts.
Version(major, minor, patch) == [major |-> major, minor |-> minor, patch |-> patch]

\* Ord of Version: by major, then minor, then patch.
VersionGreater(a, b) ==
    \/ a.major > b.major
    \/ a.major = b.major /\ a.minor > b.minor
    \/ a.major = b.major /\ a.minor = b.minor /\ a.patch > b.patch

\* A numeric identifier of semver: ASCII digits without a leading zero.
IsNumericIdentifier(s) ==
    /\ s # <<>>
    /\ \A i \in 1..Len(s) : IsAsciiDigit(s[i])
    /\ (Len(s) > 1 => Head(s) # "0")

\* Version::parse(..).ok() followed by the rejection of versions with a
\* pre-release or a build part: three numeric identifiers and nothing else.
ParseStableVersionText(text) ==
    LET parts == Split(text, ".") IN
    IF Len(parts) = 3 /\ \A i \in 1..3 : IsNumericIdentifier(parts[i])
    THEN Some(Version(DigitsValue(parts[1]), DigitsValue(parts[2]), DigitsValue(parts[3])))
    ELSE None

TagTemplate(prefix, suffix) == [prefix |-> prefix, suffix |-> suffix]

\* TagTemplate::parse_stable_version
parse_stable_version(tag_template, raw_tag) ==
    LET tag == Trim(raw_tag) IN
    IF ~StartsWith(tag, tag_template.prefix) \/ ~EndsWith(tag, tag_template.suffix) THEN None
    ELSE IF Len(tag) < Len(tag_template.prefix) + Len(tag_template.suffix) THEN None
    ELSE ParseStableVersionText(SubSeq(tag, Len(tag_template.prefix) + 1,
                                       Len(tag) - Len(tag_template.suffix)))

DigitChar(n) == CHOOSE c \in {"0", "1", "2", "3", "4", "5", "6", "7", "8", "9"} : DigitValue(c) = n

\* Display of an unsigned integer.
RECURSIVE U64ToString(_)
U64ToString(n) ==
    IF n < 10 THEN <<DigitChar(n)>> ELSE U64ToString(n \div 10) \o <<DigitChar(n % 10)>>

\* Version::to_string
VersionToString(version) ==
    U64ToString(version.major) \o <<".">> \o U64ToString(version.minor) \o <<".">>
        \o U64ToString(version.patch)

\* TagTemplate::render
TagRender(tag_template, version) == tag_template.prefix \o version \o tag_template.suffix

TaggedVersion(raw, version) == [raw |-> raw, version |-> version]

\* The `for raw_tag in output.stdout.lines()..` loop of find_latest_release_tag
\* from line i on; lines that are blank after the trim are filtered out.
RECURSIVE LatestTagFrom(_, _, _, _)
LatestTagFrom(lines, tag_template, i, latest) ==
    IF i > Len(lines) THEN latest
    ELSE LET raw_tag == Trim(lines[i])
             parsed_version == parse_stable_version(tag_template, raw_tag)
         IN  IF raw_tag = <<>> \/ ~parsed_version.some
             THEN LatestTagFrom(lines, tag_template, i + 1, latest)
             ELSE LET candidate == TaggedVersion(raw_tag, parsed_version.v)
                      replace == IF ~latest.some THEN TRUE
                                 ELSE VersionGreater(candidate.version, latest.v.version)
                  IN  LatestTagFrom(lines, tag_template, i + 1,
                                    IF replace THEN Some(candidate) ELSE latest)

\* A commit: its hash, its subject line and the lines of its body.
CommitInfo(sha, subject, body) == [sha |-> sha, subject |-> subject, body |-> body]

\* The `for record in output.stdout.split('\u{1e}')` loop of
\* collect_commits_since, on the records already split into their three
\* parts: the parts are trimmed, a record without a hash is skipped.
RECURSIVE CommitsFrom(_, _, _)
CommitsFrom(records, i, commits) ==
    IF i > Len(records) THEN commits
    ELSE LET sha == Trim(records[i].sha)
             subject == Trim(records[i].subject)
         IN  IF sha = <<>> THEN CommitsFrom(records, i + 1, commits)
             ELSE CommitsFrom(records, i + 1,
                              Append(commits, CommitInfo(sha, subject, records[i].body)))

BreakingChange == <<"B", "R", "E", "A", "K", "I", "N", "G", " ", "C", "H", "A", "N", "G", "E">>

\* str::split_once(char): the text before the first c, none without a c.
PrefixBefore(s, c) == IF Contains(s, c) THEN Some(SubSeq(s, 1, Find(s, c) - 1)) ELSE None

has_breaking_change(commit) ==
    IF \E l \in 1..Len(commit.body) : StartsWith(TrimStart(commit.body[l]), BreakingChange)
    THEN TRUE
    ELSE LET prefix == PrefixBefore(commit.subject, ":") IN
         IF ~prefix.some THEN FALSE ELSE Contains(prefix.v, "!")

\* str::trim_end_matches('!')
RECURSIVE TrimEndBangs(_)
TrimEndBangs(s) ==
    IF s # <<>> /\ s[Len(s)] = "!" THEN TrimEndBangs(SubSeq(s, 1, Len(s) - 1)) ELSE s

\* The type is the text before the `(` of the trimmed prefix and, without a
\* `(`, the prefix as it was split off the subject.
conventional_commit_type(subject) ==
    LET prefix == PrefixBefore(subject, ":") IN
    IF ~prefix.some THEN None
    ELSE LET kind == PrefixBefore(TrimEndBangs(Trim(prefix.v)), "(")
             chosen == Trim(IF kind.some THEN kind.v ELSE prefix.v)
             normalized == [i \in 1..Len(chosen) |-> ToAsciiLowercase(chosen[i])]
         IN  IF normalized = <<>> THEN None ELSE Some(normalized)

\* BumpLevel and its derived Ord: Patch < Minor < Major.
BumpRank(level) == CASE level = "Patch" -> 1 [] level = "Minor" -> 2 [] level = "Major" -> 3

classify_commit(commit) ==
    IF has_breaking_change(commit) THEN Some("Major")
    ELSE LET commit_type == conventional_commit_type(commit.subject) IN
         IF ~commit_type.some THEN None
         ELSE IF commit_type.v = <<"f", "e", "a", "t">> THEN Some("Minor")
         ELSE IF commit_type.v = <<"f", "i", "x">> THEN Some("Patch")
         ELSE None

\* commits.filter_map(classify_commit).max()
highest_bump(commits) ==
    LET levels == {classify_commit(commits[i]).v :
                      i \in {j \in 1..Len(commits) : classify_commit(commits[j]).some}}
    IN  IF levels = {} THEN None
        ELSE Some(CHOOSE l \in levels : \A m \in levels : BumpRank(m) <= BumpRank(l))

bump_version(base, level) ==
    CASE level = "Major" -> Version(base.major + 1, 0, 0)
      [] level = "Minor" -> Version(base.major, base.minor + 1, 0)
      [] level = "Patch" -> Version(base.major, base.minor, base.patch + 1)

NextRelease(version, commits) == [next_version |-> version, commits |-> commits]

\* resolve_next_release after its two commands returned.
ResolveNextRelease(latest, commits) ==
    LET next_bump == highest_bump(commits) IN
    IF ~next_bump.some THEN None
    ELSE LET base_version == IF latest.some THEN latest.v.version ELSE Version(0, 0, 0) IN
         Some(NextRelease(bump_version(base_version, next_bump.v), commits))

\* The `{{version}}` token of a release branch pattern; a pattern is the
\* sequence of its characters with each token as one element.
VersionToken == "{{version}}"

\* str::replace("{{version}}", version)
RECURSIVE ReplaceVersionToken(_, _)
ReplaceVersionToken(pattern, version) ==
    IF pattern = <<>> THEN <<>>
    ELSE (IF Head(pattern) = VersionToken THEN version ELSE <<Head(pattern)>>)
             \o ReplaceVersionToken(Tail(pattern), version)

render_release_branch(pattern, version) == Trim(ReplaceVersionToken(pattern, version))

MissingToken == "Missing GitHub auth token"

\* std::env::var(name) that is Ok and not blank
EnvToken(env, name) ==
    IF name \in DOMAIN env /\ Trim(env[name]) # <<>> THEN Some(env[name]) ELSE None

resolve_gh_token(override_token, env) ==
    IF override_token.some
    THEN IF Trim(override_token.v) = <<>> THEN Err(MissingToken) ELSE Ok(override_token.v)
    ELSE IF EnvToken(env, "GH_TOKEN").some THEN Ok(EnvToken(env, "GH_TOKEN").v)
    ELSE IF EnvToken(env, "GITHUB_TOKEN").some THEN Ok(EnvToken(env, "GITHUB_TOKEN").v)
    ELSE Err(MissingToken)

GhPullRequest(number, head_ref_name, body) ==
    [number |-> number, head_ref_name |-> head_ref_name, body |-> body]

\* MANAGED_RELEASE_PR_MARKER; a body is the sequence of its lines.
ManagedReleasePrMarker == "<!-- managed-by: brel -->"

\* prs.into_iter().find(|pr| pr.body ... contains(MARKER))
FindManaged(prs) ==
    LET managed == {i \in 1..Len(prs) :
                       prs[i].body.some /\ \E l \in 1..Len(prs[i].body.v) :
                                               prs[i].body.v[l] = ManagedReleasePrMarker}
    IN  IF managed = {} THEN None
        ELSE Some(prs[CHOOSE i \in managed : \A j \in managed : i <= j])

----------------------------------------------------------------------------
(* release_pr.rs: run_with_runner, one step at a time *)

\* What CommandRunner::run is handed, and what it answered: the program, the
\* words of the command line that are fixed, those that are computed, the
\* names of the environment variables that are set for the command, and the
\* answer of the runner.
RecordedCall(program, words, operands, env, answer) ==
    [program |-> program, args |-> words, operands |-> operands, env |-> env,
     answer |-> answer]

CommandOutput(status, stdout) == [status |-> status, stdout |-> stdout]

\* The program could not be started.
SpawnError == Err([context |-> "Failed to execute"])

\* What a command can answer: it does not start, or it exits with one of the
\* statuses and, when that is 0, with one of the outputs.
Answers(statuses, stdouts) ==
    {SpawnError} \cup {Ok(CommandOutput(s, <<>>)) : s \in statuses \ {0}}
                 \cup (IF 0 \in statuses THEN {Ok(CommandOutput(0, out)) : out \in stdouts} ELSE {})

\* run_checked on the answer of the runner.
run_checked(answer, context) ==
    IF ~answer.ok THEN answer
    ELSE IF answer.v.status # 0 THEN Err([context |-> context])
    ELSE answer

\* `return` and `?`: run_with_runner returns r and runs nothing more.
Return(r) ==
    /\ outcome' = r
    /\ rpc' = "returned"

\* Onwards to the next step of the function.
GoOn(to) ==
    /\ rpc' = to
    /\ UNCHANGED outcome

\* The variables of apply_version_updates.
callee == <<disk, next_version, version_updates, format_overrides, pc, fileIdx,
            format, content, parsed_selectors, value, document, selIdx, segIdx,
            current_paths, target_paths, pathIdx, changed, changed_files,
            result, callNo, disk0, ioLog>>

\* Exists(path): Path::exists / is_file on the repository tree.
StateOf(path) == IF path \in DOMAIN disk THEN disk[path] ELSE Absent

LoadSupportedConfig ==
    /\ rpc = "load_config"
    /\ IF ~config.ok THEN Return(config)
       ELSE IF config.v.provider # "github"
            THEN Return(Err([context |-> "Provider is not supported"]))
       ELSE GoOn("list_tags")
    /\ UNCHANGED <<callee, config, tokens, calls, latest_tag, next_release, managed_pr>>

\* The outputs of `git tag --list` that are tried: the lines of stdout.
TagLists ==
    { <<>>,
      << <<"v", "0", ".", "1", ".", "0">> >>,
      << <<"v", "1", ".", "2", ".", "9">>, <<" ", "v", "1", ".", "1", "0", ".", "0", " ">>, <<" ">> >>,
      << <<"x", "1", ".", "0", ".", "0">>, <<"v", "1", ".", "0", ".", "0", "-", "a">>,
         <<"v", "0", "1", ".", "0", ".", "0">> >> }

FindLatestReleaseTag ==
    /\ rpc = "list_tags"
    /\ \E answer \in Answers({0, 1}, TagLists) :
          LET output == run_checked(answer, "Failed to list git tags") IN
          /\ calls' = Append(calls, RecordedCall("git", <<"tag", "--list">>, <<>>, {}, answer))
          /\ IF ~output.ok THEN Return(output) /\ UNCHANGED latest_tag
             ELSE /\ latest_tag' = LatestTagFrom(output.v.stdout, config.v.tag_template, 1, None)
                  /\ rpc' = "log"
                  /\ UNCHANGED outcome
    /\ UNCHANGED <<callee, config, tokens, next_release, managed_pr>>

Sha == <<"c">>

FeatCommit == [sha |-> Sha, subject |-> <<"f", "e", "a", "t", ":", " ", "x">>, body |-> <<>>]

FixCommit == [sha |-> Sha, subject |-> <<" ", "f", "i", "x", " ", ":", "x">>, body |-> <<>>]

ScopedCommit == [sha |-> Sha, subject |-> <<"f", "e", "a", "t", "(", "x", ")", ":", "y">>, body |-> <<>>]

DocsCommit == [sha |-> Sha, subject |-> <<"d", "o", "c", "s", ":", " ", "x">>, body |-> <<>>]

BangCommit == [sha |-> Sha, subject |-> <<"f", "i", "x", "!", ":", " ", "x">>, body |-> <<>>]

BodyCommit ==
    [sha |-> Sha, subject |-> <<"x">>, body |-> << <<"x">>, <<" ">> \o BreakingChange \o <<":">> >>]

\* A record of the log without a hash.
NoShaRecord == [sha |-> <<" ">>, subject |-> <<"f", "e", "a", "t", ":", " ", "x">>, body |-> <<>>]

\* The outputs of `git log` that are tried: the records of stdout.
CommitLogs ==
    { <<>>, <<DocsCommit>>, <<NoShaRecord>>, <<FixCommit>>, <<FeatCommit, FixCommit>>,
      <<DocsCommit, ScopedCommit>>, <<FixCommit, BangCommit>>, <<BodyCommit, NoShaRecord>> }

HeadRef == <<"H", "E", "A", "D">>

\* `{tag}..HEAD` or `HEAD`
CommitRange(latest) == IF latest.some THEN latest.v.raw \o <<".", ".">> \o HeadRef ELSE HeadRef

CollectCommitsSince ==
    /\ rpc = "log"
    /\ \E answer \in Answers({0, 1}, CommitLogs) :
          LET output == run_checked(answer, "Failed to read commit history") IN
          /\ calls' = Append(calls, RecordedCall("git", <<"log", "--format">>,
                                                 <<CommitRange(latest_tag)>>, {}, answer))
          /\ IF ~output.ok THEN Return(output) /\ UNCHANGED next_release
             ELSE /\ next_release' = ResolveNextRelease(latest_tag, CommitsFrom(output.v.stdout, 1, <<>>))
                  /\ rpc' = "resolved"
                  /\ UNCHANGED outcome
    /\ UNCHANGED <<callee, config, tokens, latest_tag, managed_pr>>

\* run_with_runner from the return of resolve_next_release to the call of
\* apply_version_updates.
CallApplyVersionUpdates ==
    /\ rpc = "resolved"
    /\ IF ~next_release.some \/ DOMAIN version_updates = {}
       THEN Return(Ok(<<>>)) /\ UNCHANGED <<next_version, pc>>
       ELSE /\ next_version' = VersionToString(next_release.v.next_version)
            /\ pc' = "exists"
            /\ rpc' = "apply"
            /\ UNCHANGED outcome
    /\ UNCHANGED <<disk, version_updates, format_overrides, fileIdx,
                   format, content, parsed_selectors, value, document, selIdx, segIdx,
                   current_paths, target_paths, pathIdx, changed, changed_files,
                   result, callNo, disk0, ioLog>>
    /\ UNCHANGED <<config, tokens, calls, latest_tag, next_release, managed_pr>>

\* Mutant of CheckUpdateReport: a report without a changed file does not
\* end the workflow.
CheckUpdateReportGoesOn ==
    /\ rpc = "apply"
    /\ pc = "done"
    /\ IF Panicked(result) THEN Return(Unwound)
       ELSE IF ~result.ok THEN Return(Err(result.err))
       ELSE GoOn("gh_token")
    /\ UNCHANGED <<callee, config, tokens, calls, latest_tag, next_release, managed_pr>>

\* `apply_version_updates(..)?` returned, and the test of its report.
CheckUpdateReport ==
    /\ rpc = "apply"
    /\ pc = "done"
    /\ IF Panicked(result) THEN Return(Unwound)
       ELSE IF ~result.ok THEN Return(Err(result.err))
       ELSE IF result.changed_files = <<>> THEN Return(Ok(<<>>))
       ELSE GoOn("gh_token")
    /\ UNCHANGED <<callee, config, tokens, calls, latest_tag, next_release, managed_pr>>

ResolveGhToken ==
    /\ rpc = "gh_token"
    /\ LET gh_token == resolve_gh_token(tokens.override, tokens.env) IN
       IF ~gh_token.ok THEN Return(Err([context |-> gh_token.err]))
       ELSE GoOn("list_prs")
    /\ UNCHANGED <<callee, config, tokens, calls, latest_tag, next_release, managed_pr>>

\* `gh_env`: the names of the variables it sets.
gh_env == {"GH_TOKEN"}

\* A stdout of `gh pr list`: the JSON of a list of pull requests.
PrListText(prs) == [syntax |-> "json", prs |-> prs]

Other == <<"o">>

\* The outputs of `gh pr list` that are tried.
PrLists ==
    { InvalidText,
      PrListText(<<>>),
      PrListText(<<GhPullRequest(1, Other, None), GhPullRequest(2, Other, Some(<<"text">>))>>),
      PrListText(<<GhPullRequest(1, Other, Some(<<"text">>)),
                   GhPullRequest(3, <<"m">>, Some(<<"text", ManagedReleasePrMarker>>)),
                   GhPullRequest(4, <<"n">>, Some(<<ManagedReleasePrMarker>>))>>) }

FindManagedOpenPr ==
    /\ rpc = "list_prs"
    /\ \E answer \in Answers({0, 1}, PrLists) :
          LET output == run_checked(answer, "Failed to list open pull requests via gh") IN
          /\ calls' = Append(calls, RecordedCall("gh", <<"pr", "list">>,
                                                 <<config.v.default_branch>>, gh_env, answer))
          /\ IF ~output.ok THEN Return(output) /\ UNCHANGED managed_pr
             ELSE IF output.v.stdout.syntax # "json"
                  THEN Return(Err([context |-> "Failed to parse gh pr list JSON output"]))
                       /\ UNCHANGED managed_pr
             ELSE /\ managed_pr' = FindManaged(output.v.stdout.prs)
                  /\ rpc' = "checkout"
                  /\ UNCHANGED outcome
    /\ UNCHANGED <<callee, config, tokens, latest_tag, next_release>>

\* `release_branch`
release_branch ==
    IF managed_pr.some THEN managed_pr.v.head_ref_name
    ELSE render_release_branch(config.v.release_branch_pattern, next_version)

\* A command run through run_checked whose output the function does not read.
RunChecked(program, words, operands, env, context, then) ==
    \E answer \in Answers({0, 1}, {<<>>}) :
        LET output == run_checked(answer, context) IN
        /\ calls' = Append(calls, RecordedCall(program, words, operands, env, answer))
        /\ IF ~output.ok THEN Return(output) ELSE then

GitCheckoutBranch ==
    /\ rpc = "checkout"
    /\ RunChecked("git", <<"checkout", "-B">>, <<release_branch>>, {},
                  "Failed to create/switch release branch", GoOn("add"))
    /\ UNCHANGED <<callee, config, tokens, latest_tag, next_release, managed_pr>>

maybe_append_changelog_file(changelog, files_to_stage) ==
    IF ~changelog.enabled THEN files_to_stage
    ELSE IF \E i \in 1..Len(files_to_stage) : files_to_stage[i] = changelog.output_file
         THEN files_to_stage
    ELSE IF StateOf(changelog.output_file).kind = "file"
         THEN Append(files_to_stage, changelog.output_file)
    ELSE files_to_stage

\* `files_to_stage` after maybe_append_changelog_file
files_to_stage == maybe_append_changelog_file(config.v.changelog, result.changed_files)

GitAddFiles ==
    /\ rpc = "add"
    /\ RunChecked("git", <<"add", "--">>, files_to_stage, {},
                  "Failed to stage version update files", GoOn("staged"))
    /\ UNCHANGED <<callee, config, tokens, latest_tag, next_release, managed_pr>>

\* git_has_staged_changes and the `if` on what it returned.
GitHasStagedChanges ==
    /\ rpc = "staged"
    /\ \E answer \in Answers({0, 1, 2}, {<<>>}) :
          /\ calls' = Append(calls, RecordedCall("git", <<"diff", "--cached", "--quiet">>,
                                                 <<>>, {}, answer))
          /\ IF ~answer.ok THEN Return(answer)
             ELSE IF answer.v.status = 0 THEN Return(Ok(<<>>))
             ELSE IF answer.v.status = 1 THEN GoOn("commit")
             ELSE Return(Err([context |-> "Failed to inspect staged changes"]))
    /\ UNCHANGED <<callee, config, tokens, latest_tag, next_release, managed_pr>>

\* `next_tag`
next_tag == TagRender(config.v.tag_template, next_version)

GitCommit ==
    /\ rpc = "commit"
    /\ RunChecked("git", <<"-c", "-c", "commit", "-m">>, <<next_tag>>, {},
                  "Failed to commit release changes", GoOn("push"))
    /\ UNCHANGED <<callee, config, tokens, latest_tag, next_release, managed_pr>>

GitPushBranch ==
    /\ rpc = "push"
    /\ RunChecked("git", <<"push", "--force-with-lease", "--set-upstream", "origin">>,
                  <<release_branch>>, {},
                  "Failed to push release branch", GoOn("pr_body"))
    /\ UNCHANGED <<callee, config, tokens, latest_tag, next_release, managed_pr>>

\* The text of a PR template: whether handlebars compiles and renders it.
TemplateText(valid) == [syntax |-> "handlebars", valid |-> valid]

load_template_override(pr_template_file) ==
    IF ~pr_template_file.some THEN Ok(None)
    ELSE IF StateOf(pr_template_file.v).kind = "file" THEN Ok(Some(StateOf(pr_template_file.v).text))
    ELSE Err([context |-> "Failed to read PR template file"])

\* The built-in template compiles and renders.
render_release_pr_body(template_override) ==
    IF template_override.some /\ ~(template_override.v.syntax = "handlebars" /\ template_override.v.valid)
    THEN Err([context |-> "Failed to register or render template"])
    ELSE Ok(<<"body">>)

\* run_with_runner from the return of git_push_branch to the `match` on
\* `managed_pr`.
RenderPrBody ==
    /\ rpc = "pr_body"
    /\ LET template_override == load_template_override(config.v.pr_template_file) IN
       IF ~template_override.ok THEN Return(template_override)
       ELSE IF ~render_release_pr_body(template_override.v).ok
            THEN Return(render_release_pr_body(template_override.v))
       ELSE GoOn("pr")
    /\ UNCHANGED <<callee, config, tokens, calls, latest_tag, next_release, managed_pr>>

GhEditPr ==
    /\ rpc = "pr"
    /\ managed_pr.some
    /\ RunChecked("gh", <<"pr", "edit">>, <<U64ToString(managed_pr.v.number)>>, gh_env,
                  "Failed to update existing release pull request", Return(Ok(<<>>)))
    /\ UNCHANGED <<callee, config, tokens, latest_tag, next_release, managed_pr>>

\* Mutant of GhCreatePr: a pull request is created whether or not there is
\* a managed one.
GhCreatePrAlways ==
    /\ rpc = "pr"
    /\ RunChecked("gh", <<"pr", "create">>, <<release_branch>>, gh_env,
                  "Failed to create release pull request", Return(Ok(<<>>)))
    /\ UNCHANGED <<callee, config, tokens, latest_tag, next_release, managed_pr>>

GhCreatePr ==
    /\ rpc = "pr"
    /\ ~managed_pr.some
    /\ RunChecked("gh", <<"pr", "create">>, <<release_branch>>, gh_env,
                  "Failed to create release pull request", Return(Ok(<<>>)))
    /\ UNCHANGED <<callee, config, tokens, latest_tag, next_release, managed_pr>>

NextWorkflow ==
    \/ LoadSupportedConfig
    \/ FindLatestReleaseTag
    \/ CollectCommitsSince
    \/ CallApplyVersionUpdates
    \/ CheckExists
    \/ DetectFormat
    \/ ReadFile
    \/ ParseSelectors
    \/ ParseDocument
    \/ ResolveSegment
    \/ ResolveFinish
    \/ SetStringAtPath
    \/ ReturnUnchanged
    \/ WriteFile
    \/ ReturnOk
    \/ CheckUpdateReport
    \/ ResolveGhToken
    \/ FindManagedOpenPr
    \/ GitCheckoutBranch
    \/ GitAddFiles
    \/ GitHasStagedChanges
    \/ GitCommit
    \/ GitPushBranch
    \/ RenderPrBody
    \/ GhEditPr
    \/ GhCreatePr

----------------------------------------------------------------------------
(* Scenarios of the workflow: configurations, repositories, environments *)

ChangelogPath == <<"C", ".", "m", "d">>

TemplatePath == <<"t", ".", "m", "d">>

MainBranch == <<"m">>

\* A loaded configuration; provider, template file and changelog vary.
ResolvedConfig(provider, pr_template_file, changelog) ==
    [provider |-> provider,
     default_branch |-> MainBranch,
     tag_template |-> TagTemplate(<<"v">>, <<>>),
     release_branch_pattern |-> <<"r", "/", "v", VersionToken>>,
     pr_template_file |-> pr_template_file,
     changelog |-> changelog]

Changelog(enabled, output_file) == [enabled |-> enabled, output_file |-> output_file]

Tokens(override, env) == [override |-> override, env |-> env]

Token == <<"t">>

\* GH_TOKEN is set.
DefaultTokens == Tokens(None, "GH_TOKEN" :> Token)

TokenCases ==
    { DefaultTokens,
      Tokens(None, <<>>),
      Tokens(Some(<<" ">>), "GH_TOKEN" :> Token),
      Tokens(Some(Token), <<>>),
      Tokens(None, ("GH_TOKEN" :> <<" ">>) @@ ("GITHUB_TOKEN" :> Token)),
      Tokens(None, "GH_TOKEN" :> <<>>) }

\* The version the first feature release of a repository without tags gets.
FirstMinor == <<"0", ".", "1", ".", "0">>

\* The configured version files and their states: none configured; one or
\* two files with an old version; a file that holds FirstMinor already,
\* alone or before a file with an old version; a file that is missing.
UpdateCases ==
    { [updates |-> <<>>, files |-> <<>>],
      [updates |-> (JsonPath :> << <<"v">> >>),
       files |-> (JsonPath :> File(VersionDoc("Json", OldVersion)))],
      [updates |-> (JsonPath :> << <<"v">> >>) @@ (TomlPath :> << <<"v">> >>),
       files |-> (JsonPath :> File(VersionDoc("Json", OldVersion)))
                    @@ (TomlPath :> File(VersionDoc("Toml", OldVersion)))],
      [updates |-> (JsonPath :> << <<"v">> >>),
       files |-> (JsonPath :> File(VersionDoc("Json", FirstMinor)))],
      [updates |-> (JsonPath :> << <<"v">> >>) @@ (TomlPath :> << <<"v">> >>),
       files |-> (JsonPath :> File(VersionDoc("Json", FirstMinor)))
                    @@ (TomlPath :> File(VersionDoc("Toml", OldVersion)))],
      [updates |-> (JsonPath :> << <<"v">> >>), files |-> (JsonPath :> Absent)] }

\* The PR template file: not configured; configured and missing, valid or
\* not a template.
TemplateCases ==
    { [file |-> None, state |-> Absent],
      [file |-> Some(TemplatePath), state |-> Absent],
      [file |-> Some(TemplatePath), state |-> File(TemplateText(TRUE))],
      [file |-> Some(TemplatePath), state |-> File(TemplateText(FALSE))] }

\* The changelog: disabled; enabled with its file present or missing;
\* enabled with a version file as its output file.
ChangelogCases ==
    { [changelog |-> Changelog(FALSE, ChangelogPath), state |-> Absent],
      [changelog |-> Changelog(TRUE, ChangelogPath), state |-> File(InvalidText)],
      [changelog |-> Changelog(TRUE, ChangelogPath), state |-> Absent],
      [changelog |-> Changelog(TRUE, JsonPath), state |-> Absent] }

\* The whole of a scenario.
Scenario(provider, u, t, c, tok) ==
    /\ config = Ok(ResolvedConfig(provider, t.file, c.changelog))
    /\ tokens = tok
    /\ version_updates = u.updates
    /\ format_overrides = <<>>
    /\ disk = u.files @@ (TemplatePath :> t.state) @@ (ChangelogPath :> c.state)

InitScenarios ==
    \/ /\ config = Err([context |-> "Failed to load config"])
       /\ tokens = DefaultTokens
       /\ version_updates = <<>>
       /\ format_overrides = <<>>
       /\ disk = <<>>
    \/ \E u \in UpdateCases, t \in TemplateCases, c \in ChangelogCases, tok \in TokenCases,
          provider \in {"github", "gitlab"} :
          /\ \/ t = [file |-> None, state |-> Absent] /\ c.changelog.enabled = FALSE
                /\ (provider = "github" \/ tok = DefaultTokens)
             \/ tok = DefaultTokens /\ provider = "github" /\ Cardinality(DOMAIN u.files) >= 1
                /\ u.files[JsonPath] = File(VersionDoc("Json", OldVersion))
          /\ Scenario(provider, u, t, c, tok)

\* run_with_runner has been entered; apply_version_updates has not.
InitWorkflow ==
    /\ InitScenarios
    /\ rpc = "load_config"
    /\ calls = <<>>
    /\ latest_tag = None
    /\ next_release = None
    /\ managed_pr = None
    /\ outcome = Running
    /\ next_version = <<>>
    /\ callNo = 1
    /\ disk0 = disk
    /\ pc = "idle"
    /\ fileIdx = 1
    /\ format = "unset"
    /\ content = UnsetText
    /\ parsed_selectors = <<>>
    /\ value = Unset
    /\ document = DocumentMut(Unset, 0)
    /\ selIdx = 1
    /\ segIdx = 1
    /\ current_paths = <<>>
    /\ target_paths = <<>>
    /\ pathIdx = 1
    /\ changed = FALSE
    /\ changed_files = <<>>
    /\ result = Running
    /\ ioLog = <<>>

SpecWorkflow == InitWorkflow /\ [][NextWorkflow]_vars

----------------------------------------------------------------------------
(* Vocabulary of the properties: a format-neutral view of the trees *)

IsMapping(node) == node.k \in {"Object", "Table", "InlineTable"}

IsSequence(node) == node.k \in {"Array", "ArrayOfTables"}

IsString(node) == node.k = "String"

\* The node at a concrete path, None when the path leads nowhere.
RECURSIVE NodeAt(_, _)
NodeAt(node, path) ==
    IF path = <<>> THEN Some(node)
    ELSE LET step == Head(path) IN
         IF step.t = "Key"
         THEN IF IsMapping(node) /\ step.key \in DOMAIN node.m
              THEN NodeAt(node.m[step.key], Tail(path)) ELSE None
         ELSE IF IsSequence(node) /\ step.index + 1 \in 1..Len(node.a)
              THEN NodeAt(node.a[step.index + 1], Tail(path)) ELSE None

\* The concrete paths of all nodes of a tree.
RECURSIVE NodePaths(_)
NodePaths(node) ==
    {<<>>} \cup
    (IF IsMapping(node)
     THEN UNION {{<<PathStepKey(key)>> \o q : q \in NodePaths(node.m[key])} : key \in DOMAIN node.m}
     ELSE IF IsSequence(node)
     THEN UNION {{<<PathStepIndex(i - 1)>> \o q : q \in NodePaths(node.a[i])} : i \in 1..Len(node.a)}
     ELSE {})

\* The tree a text denotes, in the format the call reads it in.
TreeOfText(text) == IF text.syntax = "json" THEN text.tree ELSE EditToValue(text.doc)

\* The tree the updater holds in memory for the current file.
MemoryTree == IF format = "Json" THEN value ELSE EditToValue(document.root)

\* The tree the current file had when it was read.
ReadTree == TreeOfText(content)

Failed == pc = "done" /\ ~result.ok

Succeeded == pc = "done" /\ result.ok

Written(file) == \E i \in 1..Len(ioLog) : ioLog[i] = [op |-> "write", file |-> file]

WriteCount(file) == Cardinality({i \in 1..Len(ioLog) : ioLog[i] = [op |-> "write", file |-> file]})

\* Files whose processing the present call has completed without error.
ProcessedFiles ==
    {FileOrder[i] : i \in 1..(fileIdx - 1)}
    \cup (IF (pc = "return" \/ Succeeded) /\ FileOrder # <<>> THEN {FileOrder[fileIdx]} ELSE {})

----------------------------------------------------------------------------
(* C1 *)

\* C1 (idempotence): when a call has succeeded, a second call with the same
\* arguments on the files it left succeeds, reports no changed file and
\* leaves every byte as the first call left it.
C1_SecondCallIsNoOp ==
    (callNo = 2 /\ pc = "done") =>
        /\ result.ok
        /\ result.changed_files = <<>>
        /\ disk = disk0

----------------------------------------------------------------------------
(* C2 *)

\* The selectors of a file whose selectors all parse.
SelectorsOf(file) == parse_selectors(version_updates[file]).v

\* The format of a file whose format is detected.
FormatOf(file) == detect_file_format(file, MapGet(format_overrides, file)).v

\* The tree of a file as the present call found it.
TreeAtEntry(file) == TreeOfText(disk0[file].text)

\* What a selector resolves to in the file as the present call found it.
ResolvedAtEntry(file, selector) ==
    IF FormatOf(file) = "Json" THEN resolve_json_paths(TreeAtEntry(file), selector)
    ELSE resolve_toml_paths(TreeAtEntry(file), selector)

\* Every selector of the file resolves, and every leaf it resolves to is
\* already the string next_version.
AllLeavesAtTarget(file) ==
    \A i \in 1..Len(SelectorsOf(file)) :
        LET r == ResolvedAtEntry(file, SelectorsOf(file)[i].selector) IN
        /\ r.ok
        /\ \A j \in 1..Len(r.v) :
              LET node == NodeAt(TreeAtEntry(file), r.v[j]) IN
              node.some /\ IsString(node.v) /\ node.v.s = next_version

\* The text is not what the updater itself would write for its tree.
NonCanonical(text) ==
    \/ text.syntax = "json" /\ text.layout # "pretty"
    \/ text.syntax = "toml" /\ text.newline = 0

\* C2: a processed file all of whose resolved leaves already equal the target
\* is not written (its bytes are those the call found, whatever their
\* formatting) and is not in changed_files.
C2_UnchangedFileIsNotWritten ==
    \A f \in ProcessedFiles :
        AllLeavesAtTarget(f) =>
            /\ disk[f] = disk0[f]
            /\ ~Written(f)
            /\ f \notin Range(changed_files)
            /\ Succeeded => f \notin Range(result.changed_files)

\* A call has processed a JSON file in non-canonical formatting and a TOML
\* file without final line feed whose leaves were all at the target already.
C2_Witness ==
    \E f, g \in ProcessedFiles :
        /\ AllLeavesAtTarget(f) /\ AllLeavesAtTarget(g)
        /\ disk0[f].text.syntax = "json" /\ NonCanonical(disk0[f].text)
        /\ disk0[g].text.syntax = "toml" /\ NonCanonical(disk0[g].text)

----------------------------------------------------------------------------
(* C3 *)

SelectorErrorKinds ==
    TypeMismatchKinds \cup {"Invalid version selector", MatchedNoValues.kind, NonStringValue.kind}

\* C3: when the call fails on a selector of a file (syntax error, type
\* mismatch, no match, non-string target), that file has not been written:
\* its bytes are those the call found.
C3_FailedFileIsNotWritten ==
    (Failed /\ result.err.kind \in SelectorErrorKinds) =>
        /\ disk[result.err.file] = disk0[result.err.file]
        /\ ~Written(result.err.file)

\* A selector failed after leaves of the in-memory tree had been changed.
C3_Witness ==
    /\ Failed
    /\ result.err.kind \in SelectorErrorKinds
    /\ changed
    /\ MemoryTree # ReadTree

----------------------------------------------------------------------------
(* C4 *)

Touched(file) == \E i \in 1..Len(ioLog) : ioLog[i].file = file

\* C4: files are checked, read and written in increasing byte order of their
\* relative paths; when the call fails, the error is that of the file k being
\* processed, every file before k that changed is rewritten on disk, and no
\* file after k has been checked for existence, read or written.
C4_PartialFailureOrdering ==
    /\ \A i, j \in 1..Len(ioLog) :
          i < j => (ioLog[i].file = ioLog[j].file \/ StrLess(ioLog[i].file, ioLog[j].file))
    /\ Failed =>
          LET k == result.err.file IN
          /\ k \in DOMAIN version_updates
          /\ Touched(k)
          /\ \A f \in DOMAIN version_updates :
                /\ StrLess(k, f) => (~Touched(f) /\ disk[f] = disk0[f])
                /\ StrLess(f, k) =>
                      /\ Touched(f)
                      /\ f \in Range(changed_files) <=> Written(f)
                      /\ Written(f) <=> disk[f] # disk0[f]
                      /\ ~AllLeavesAtTarget(f) => Written(f)

\* The second of three files failed after the first had been rewritten.
C4_Witness ==
    /\ Failed
    /\ \E f, g \in DOMAIN version_updates :
          /\ StrLess(f, result.err.file) /\ StrLess(result.err.file, g)
          /\ Written(f) /\ disk[f] # disk0[f]

----------------------------------------------------------------------------
(* C5 *)

\* When the call has succeeded, a file is reported iff it was written, it was
\* written iff its tree on disk differs from the one the call found, and a
\* file with a resolved leaf that differed from the target was written; no
\* file is ever written twice in a call.
C5_Report ==
    /\ \A f \in DOMAIN version_updates : WriteCount(f) <= 1
    /\ Succeeded =>
          \A f \in DOMAIN version_updates :
              /\ f \in Range(result.changed_files) <=> Written(f)
              /\ Written(f) <=> TreeOfText(disk[f].text) # TreeAtEntry(f)
              /\ ~AllLeavesAtTarget(f) => Written(f)
              /\ ~Written(f) => disk[f] = disk0[f]

\* A step that changes the repository writes the current file only, after the
\* last path of its last selector has been applied, and writes the tree the
\* updater holds with all changes made to it.
C5_Write ==
    disk' # disk =>
        /\ pc = "finish"
        /\ selIdx = Len(parsed_selectors)
        /\ pathIdx = Len(target_paths)
        /\ \A f \in DOMAIN disk : f # relative_path => disk'[f] = disk[f]
        /\ TreeOfText(disk'[relative_path].text) = MemoryTree
        /\ changed_files' = Append(changed_files, relative_path)

\* C5: on success a file is in changed_files iff some leaf resolved by its
\* selectors differed from the target iff it was written; it is written once,
\* after all its selectors were applied, with all changes combined.
C5_ChangedIffWrittenOnce == []C5_Report /\ [][C5_Write]_vars

\* A call succeeded that wrote a file with two selectors at least.
C5_Witness ==
    /\ Succeeded
    /\ \E f \in DOMAIN version_updates : Written(f) /\ Len(version_updates[f]) >= 2

----------------------------------------------------------------------------
(* C6 *)

StrictlyIncreasing(files) ==
    \A i, j \in 1..Len(files) : i < j => StrLess(files[i], files[j])

\* C6: changed_files is strictly increasing in the byte order of the relative
\* paths, while it is built and when it is returned.
C6_ChangedFilesSorted ==
    /\ StrictlyIncreasing(changed_files)
    /\ Succeeded => StrictlyIncreasing(result.changed_files)

\* A call returned three changed files.
C6_Witness == Succeeded /\ Len(result.changed_files) >= 3

----------------------------------------------------------------------------
(* C7 *)

\* The segment the resolver is about to consume (pc = "resolve").
CurrentSegment == parsed_selectors[selIdx].selector[segIdx]

\* The child under `key` of the node at a frontier path; None when the node
\* is no mapping or lacks the key.
ChildOf(tree, path, key) ==
    LET node == NodeAt(tree, path) IN
    IF node.some /\ IsMapping(node.v) /\ key \in DOMAIN node.v.m
    THEN Some(node.v.m[key]) ELSE None

\* An element is matched by a filter: it is a mapping whose field is the
\* string v.
ElementMatches(element, field, v) ==
    /\ IsMapping(element)
    /\ field \in DOMAIN element.m
    /\ IsString(element.m[field])
    /\ element.m[field].s = v

\* The child is an array of mappings whose filter field, where present, is a
\* string.
FilterApplies(child, field) ==
    /\ IsSequence(child)
    /\ \A i \in 1..Len(child.a) :
          /\ IsMapping(child.a[i])
          /\ field \in DOMAIN child.a[i].m => IsString(child.a[i].m[field])

\* The paths the fan-out of a filter segment owes for one frontier path.
FanOut(tree, path, segment) ==
    LET child == ChildOf(tree, path, segment.key) IN
    IF ~child.some \/ ~IsSequence(child.v) THEN {}
    ELSE {Append(Append(path, PathStepKey(segment.key)), PathStepIndex(i - 1)) :
             i \in {j \in 1..Len(child.v.a) :
                       ElementMatches(child.v.a[j], segment.qualifier.field, segment.qualifier.value)}}

\* A resolver step on a filter segment over arrays of mappings yields exactly
\* one path per matching element, and no other.
C7_Resolve ==
    (/\ pc = "resolve"
     /\ CurrentSegment.qualifier.t = "Filter"
     /\ \A path \in Range(current_paths) :
           LET child == ChildOf(value, path, CurrentSegment.key) IN
           child.some => FilterApplies(child.v, CurrentSegment.qualifier.field))
    => /\ pc' # "done"
       /\ Range(current_paths') = UNION {FanOut(value, path, CurrentSegment) : path \in Range(current_paths)}
       /\ Len(current_paths') = Cardinality(Range(current_paths'))

\* The only selector of the current file is key[field=v].leaf.
FilterThenLeaf ==
    /\ Len(parsed_selectors) = 1
    /\ Len(parsed_selectors[1].selector) = 2
    /\ parsed_selectors[1].selector[1].qualifier.t = "Filter"
    /\ parsed_selectors[1].selector[2].qualifier.t = "None"

\* After the update by key[field=v].leaf, the leaf of every matching element
\* is the target and every other element is as it was read.
C7_Updated ==
    (pc = "finish" /\ FilterThenLeaf) =>
        LET first  == parsed_selectors[1].selector[1]
            leaf   == parsed_selectors[1].selector[2].key
            before == ReadTree.m[first.key].a
            after  == MemoryTree.m[first.key].a
        IN  /\ Len(after) = Len(before)
            /\ \A i \in 1..Len(before) :
                  IF ElementMatches(before[i], first.qualifier.field, first.qualifier.value)
                  THEN leaf \in DOMAIN before[i].m =>
                          (IsString(after[i].m[leaf]) /\ after[i].m[leaf].s = next_version)
                  ELSE after[i] = before[i]

\* C7 (filter fan-out): a filter segment over an array of mappings with string
\* field values adds one path per element whose field equals the value and no
\* other path; after the update the targeted leaf of every matching element
\* is the target and no other element has changed.
C7_FilterFanOut == []C7_Updated /\ [][C7_Resolve]_vars

\* An update by a filter selector changed the leaf of a matching element and
\* left a non-matching element with an old version.
C7_Witness ==
    /\ pc = "finish"
    /\ FilterThenLeaf
    /\ changed
    /\ LET first  == parsed_selectors[1].selector[1]
           leaf   == parsed_selectors[1].selector[2].key
           before == ReadTree.m[first.key].a
       IN  /\ \E i \in 1..Len(before) :
                 ElementMatches(before[i], first.qualifier.field, first.qualifier.value)
           /\ \E i \in 1..Len(before) :
                 /\ ~ElementMatches(before[i], first.qualifier.field, first.qualifier.value)
                 /\ IsMapping(before[i]) /\ leaf \in DOMAIN before[i].m
                 /\ before[i].m[leaf] = JsonString(OldVersion)

----------------------------------------------------------------------------
(* C8 *)

\* The document a text denotes, with the node kinds of the library that edits
\* it.
DocOfText(text) == IF text.syntax = "json" THEN text.tree ELSE text.doc

\* The document the updater mutates for the current file.
MemoryDoc == IF format = "Json" THEN value ELSE document.root

\* A tree with the contents of its strings removed: its shape, the kind of
\* every node and the value of every leaf that is no string.
RECURSIVE Skeleton(_)
Skeleton(node) ==
    IF IsMapping(node)
    THEN [k |-> node.k, m |-> [key \in DOMAIN node.m |-> Skeleton(node.m[key])]]
    ELSE IF IsSequence(node)
    THEN [k |-> node.k, a |-> [i \in 1..Len(node.a) |-> Skeleton(node.a[i])]]
    ELSE IF IsString(node) THEN [k |-> "String"]
    ELSE node

\* The paths of the scalar nodes of a tree.
LeafPaths(tree) ==
    {q \in NodePaths(tree) : ~IsMapping(NodeAt(tree, q).v) /\ ~IsSequence(NodeAt(tree, q).v)}

\* `after` is `before` with some of its strings replaced by the target, and
\* nothing else.
OnlyStringsRetargeted(before, after) ==
    /\ Skeleton(after) = Skeleton(before)
    /\ \A q \in LeafPaths(before) :
          IsString(NodeAt(before, q).v) =>
             \/ NodeAt(after, q).v.s = NodeAt(before, q).v.s
             \/ NodeAt(after, q).v.s = next_version

\* The document in memory, and the document on disk of every file the call
\* has processed, is the one read with some strings replaced by the target.
C8_Shape ==
    /\ pc \in {"resolve", "resolved", "set", "finish"} =>
          OnlyStringsRetargeted(DocOfText(content), MemoryDoc)
    /\ \A f \in ProcessedFiles :
          disk0[f].kind = "file" =>
             /\ disk[f].kind = "file"
             /\ disk[f].text.syntax = disk0[f].text.syntax
             /\ OnlyStringsRetargeted(DocOfText(disk0[f].text), DocOfText(disk[f].text))

\* A step of the updater changes at most the leaf at the resolved path it is
\* at, and the resolver changes nothing.
C8_Step ==
    /\ pc = "set" =>
          \A q \in LeafPaths(MemoryDoc) :
             q # target_paths[pathIdx] => NodeAt(MemoryDoc', q) = NodeAt(MemoryDoc, q)
    /\ pc \in {"resolve", "resolved"} => MemoryDoc' = MemoryDoc
    /\ pc = "finish" /\ changed =>
          DocOfText(disk'[FileOrder[fileIdx]].text) = MemoryDoc

\* C8 (frame): an update leaves the shape of the document, the kind of every
\* node and every non-string value as they were; each step rewrites only the
\* string leaf at the resolved path it is applied to.
C8_Frame == []C8_Shape /\ [][C8_Step]_vars

\* A file was rewritten in which one string leaf now holds the target and
\* another string leaf and a non-string leaf are as before.
C8_Witness ==
    \E f \in ProcessedFiles :
        /\ Written(f)
        /\ LET before == DocOfText(disk0[f].text)
               after  == DocOfText(disk[f].text)
           IN  /\ \E q \in LeafPaths(before) :
                     /\ IsString(NodeAt(before, q).v)
                     /\ NodeAt(before, q).v.s # next_version
                     /\ NodeAt(after, q).v.s = next_version
               /\ \E q \in LeafPaths(before) :
                     /\ IsString(NodeAt(before, q).v)
                     /\ NodeAt(before, q).v.s # next_version
                     /\ NodeAt(after, q) = NodeAt(before, q)
               /\ \E q \in LeafPaths(before) : ~IsString(NodeAt(before, q).v)

----------------------------------------------------------------------------
(* C9 *)

\* The segment asks for an array and, at some frontier path, its key is
\* present with a value that is none.
NonArrayUnderQualifier ==
    /\ pc = "resolve"
    /\ CurrentSegment.qualifier.t \in {"Index", "Filter"}
    /\ \E path \in Range(current_paths) :
          LET child == ChildOf(value, path, CurrentSegment.key) IN
          child.some /\ ~IsSequence(child.v)

\* The step ends the call with a type-mismatch error.
FailsWithTypeMismatch ==
    /\ pc' = "done"
    /\ ~result'.ok
    /\ result'.err.kind \in TypeMismatchKinds

NonStringFieldComesFirst ==
    /\ CurrentSegment.qualifier.t = "Filter"
    /\ \E i, j \in 1..Len(current_paths) :
          /\ i < j
          /\ LET bad == ChildOf(value, current_paths[j], CurrentSegment.key) IN
             bad.some /\ ~IsSequence(bad.v)
          /\ LET child == ChildOf(value, current_paths[i], CurrentSegment.key) IN
             /\ child.some /\ IsSequence(child.v)
             /\ \E e \in 1..Len(child.v.a) :
                   /\ IsMapping(child.v.a[e])
                   /\ CurrentSegment.qualifier.field \in DOMAIN child.v.a[e].m
                   /\ ~IsString(child.v.a[e].m[CurrentSegment.qualifier.field])

----------------------------------------------------------------------------
(* C10 *)

\* The frontier path is a dead branch for the segment: its node is no mapping,
\* the mapping lacks the key, or the index is beyond the array.
SoftDropped(tree, path, segment) ==
    LET node == NodeAt(tree, path) IN
    \/ ~node.some
    \/ ~IsMapping(node.v)
    \/ segment.key \notin DOMAIN node.v.m
    \/ /\ segment.qualifier.t = "Index"
       /\ IsSequence(node.v.m[segment.key])
       /\ segment.qualifier.index >= Len(node.v.m[segment.key].a)

IsPrefix(p, q) == Len(p) <= Len(q) /\ SubSeq(q, 1, Len(p)) = p

\* A resolver step: dead branches add no path and raise no error.
C10_Resolve ==
    pc = "resolve" =>
        LET live == {path \in Range(current_paths) : ~SoftDropped(value, path, CurrentSegment)} IN
        /\ pc' = "done" => (live # {} /\ result'.err.kind \in TypeMismatchKinds)
        /\ live = {} => (pc' # "done" /\ current_paths' = <<>>)
        /\ pc' # "done" =>
              \A q \in Range(current_paths') : \E path \in live : IsPrefix(path, q)

\* The end of the resolver: an empty frontier is the no-match error, and the
\* only error.
C10_Finish ==
    pc = "resolved" =>
        /\ current_paths = <<>> =>
              /\ pc' = "done"
              /\ result'.err = Error("matched no values", <<>>,
                                     Some(parsed_selectors[selIdx].text), relative_path)
        /\ current_paths # <<>> => pc' # "done"

\* C10 (soft-drop policy): a frontier path whose node is no mapping, whose
\* mapping lacks the segment key, or whose index is out of range is dropped
\* without an error; the only error that follows from it is the no-match error
\* after the last segment, when the frontier has ended empty.
C10_SoftDrop == [][C10_Resolve /\ C10_Finish]_vars

\* A selector whose index is beyond the array ended in the no-match error.
C10_Witness ==
    /\ Failed
    /\ result.err.kind = "matched no values"
    /\ LET first == parsed_selectors[selIdx].selector[1] IN
       /\ first.qualifier.t = "Index"
       /\ IsMapping(value) /\ first.key \in DOMAIN value.m
       /\ IsSequence(value.m[first.key])
       /\ Len(value.m[first.key].a) > 0
       /\ first.qualifier.index >= Len(value.m[first.key].a)

----------------------------------------------------------------------------
(* C11 *)

\* The concrete path leads from the node through the segments: each segment
\* takes its key, then the index it names or the index of an element its
\* filter matches.
RECURSIVE PathMatches(_, _, _)
PathMatches(node, path, segments) ==
    IF segments = <<>> THEN path = <<>>
    ELSE LET segment == Head(segments) IN
         /\ path # <<>>
         /\ Head(path) = PathStepKey(segment.key)
         /\ IsMapping(node)
         /\ segment.key \in DOMAIN node.m
         /\ LET child == node.m[segment.key] IN
            IF segment.qualifier.t = "None"
            THEN PathMatches(child, Tail(path), Tail(segments))
            ELSE /\ Len(path) >= 2
                 /\ path[2].t = "Index"
                 /\ IsSequence(child)
                 /\ path[2].index < Len(child.a)
                 /\ IF segment.qualifier.t = "Index"
                    THEN path[2].index = segment.qualifier.index
                    ELSE ElementMatches(child.a[path[2].index + 1],
                                        segment.qualifier.field, segment.qualifier.value)
                 /\ PathMatches(child.a[path[2].index + 1], Tail(Tail(path)), Tail(segments))

\* The paths of a document that a selector denotes.
MatchingPaths(tree, segments) == {q \in NodePaths(tree) : PathMatches(tree, q, segments)}

PathsStrictlyIncreasing(paths) ==
    \A i \in 1..(Len(paths) - 1) : PathLess(paths[i], paths[i + 1])

\* The return of the resolver.
C11_Return ==
    pc = "resolved" =>
        IF current_paths = <<>>
        THEN /\ pc' = "done"
             /\ result' = ReturnedErr(Error("matched no values", <<>>,
                                            Some(parsed_selectors[selIdx].text), relative_path))
        ELSE /\ pc' = "set"
             /\ target_paths' # <<>>
             /\ PathsStrictlyIncreasing(target_paths')
             /\ Range(target_paths') = MatchingPaths(value, parsed_selectors[selIdx].selector)

\* C11 (resolver result): the list the resolver returns is non-empty, free of
\* duplicates, strictly increasing in the order of PathStep, and is the set of
\* paths the selector denotes in the document; an empty last frontier is the
\* `matched no values` error with the selector and the file.
C11_ResolverResult == [][C11_Return]_vars

\* The resolver returned several paths.
C11_Witness ==
    /\ pc = "set"
    /\ Len(target_paths) >= 2
    /\ pathIdx = 1

----------------------------------------------------------------------------
(* C12 *)

\* The node of the document being mutated at the path the mutator is at.
TerminalNode == NodeAt(MemoryDoc, target_paths[pathIdx])

\* One call of the mutator: it fails exactly on a terminal node that is no
\* string, with the non-string error, and then the document is as before.
C12_Set ==
    pc = "set" =>
        /\ TerminalNode.some
        /\ ~IsString(TerminalNode.v) =>
              /\ pc' = "done"
              /\ result' = ReturnedErr(Error("matched a non-string value", <<>>,
                                             Some(parsed_selectors[selIdx].text), relative_path))
              /\ MemoryDoc' = MemoryDoc
        /\ IsString(TerminalNode.v) => pc' # "done"

\* C12 (non-string rejection): for a path the resolver returned whose
\* terminal node is no string (number, boolean, null, array, mapping, table,
\* inline table, element of an array of tables), the mutator fails with the
\* non-string error, never with the internal path error, and leaves the node
\* as it is.
C12_NonStringRejected ==
    [](Failed => result.err.kind # "Internal selector path resolution error")
    /\ [][C12_Set]_vars

\* The kinds of terminal nodes the mutator has rejected in this state.
RejectedKind ==
    IF Failed /\ result.err.kind = "matched a non-string value" /\ TerminalNode.some
    THEN {<<format, TerminalNode.v.k>>} ELSE {}

\* The mutator rejected the element of an array of tables.
C12_Witness ==
    /\ RejectedKind = {<<"Toml", "Table">>}
    /\ target_paths[pathIdx][Len(target_paths[pathIdx])].t = "Index"

----------------------------------------------------------------------------
(* C13 *)

\* The leaves of a document that hold the target.
TargetLeaves(tree) ==
    {q \in LeafPaths(tree) : IsString(NodeAt(tree, q).v) /\ NodeAt(tree, q).v.s = next_version}

\* What an update of one document comes to: the kind of its error, or the
\* leaves that hold the target after it.
Outcome(r) ==
    IF r.ok THEN [ok |-> TRUE, leaves |-> TargetLeaves(r.v.node)]
    ELSE [ok |-> FALSE, kind |-> r.err.kind]

\* The update of the current file has come to its end, by an error of a
\* selector or by success.
UpdateEnded ==
    \/ pc = "finish"
    \/ /\ Failed
       /\ result.err.file = relative_path
       /\ result.err.kind \in TypeMismatchKinds \cup {"matched no values", "matched a non-string value"}

\* The outcome of the update the call has made of the current file.
EndedOutcome ==
    IF pc = "finish" THEN [ok |-> TRUE, leaves |-> TargetLeaves(MemoryDoc)]
    ELSE [ok |-> FALSE, kind |-> result.err.kind]

\* C13 (cross-format equivalence): the update of a JSON document comes to the
\* same outcome (the same error kind, or the same leaves at the target) as
\* the update of the TOML document of the same tree by the same selectors,
\* also when an earlier selector rewrites a string that the filter of a later
\* selector compares.
C13_CrossFormat ==
    (UpdateEnded /\ format = "Json" /\ TomlDenotable(content.tree)) =>
        EndedOutcome = Outcome(update_toml_file(TomlText(JsonToEditItem(content.tree), 0),
                                                parsed_selectors, next_version))

----------------------------------------------------------------------------
(* C14 *)

\* The text of a TOML file apart from the tokens of some strings: the shape
\* and every value that is no string, and around every string the text it had.
SameTextAround(before, after) ==
    /\ Skeleton(after) = Skeleton(before)
    /\ \A q \in LeafPaths(before) :
          IsString(NodeAt(before, q).v) =>
             /\ NodeAt(after, q).v.decor = NodeAt(before, q).v.decor
             /\ \/ NodeAt(after, q).v.s = NodeAt(before, q).v.s
                \/ NodeAt(after, q).v.s = next_version

\* C14 (TOML format preservation): a TOML file that has been rewritten holds
\* its original text but for the tokens of the matched strings, which hold
\* the target, and for a final line feed added when there was none.
C14_TomlTextPreserved ==
    \A f \in ProcessedFiles :
        (Written(f) /\ disk0[f].kind = "file" /\ disk[f].text.syntax = "toml") =>
            /\ SameTextAround(disk0[f].text.doc, disk[f].text.doc)
            /\ disk[f].text.newline = (IF disk0[f].text.newline = 0 THEN 1 ELSE disk0[f].text.newline)

----------------------------------------------------------------------------
(* C15 *)

\* The write of a file: JSON is the pretty serialization of the value and one
\* line feed; TOML is the document as it prints, and one line feed when it
\* prints with none.
C15_Write ==
    (pc = "finish" /\ changed) =>
        disk'[relative_path] =
            File(IF format = "Json" THEN JsonText(value, "pretty")
                 ELSE TomlText(document.root,
                               IF document.newline = 0 THEN 1 ELSE document.newline))

\* Every file the call has written.
C15_Written ==
    \A f \in ProcessedFiles :
        (Written(f) /\ disk0[f].kind = "file") =>
            IF disk[f].text.syntax = "json" THEN disk[f].text.layout = "pretty"
            ELSE /\ disk[f].text.newline >= 1
                 /\ disk0[f].text.syntax = "toml"
                 /\ disk0[f].text.newline >= 1 => disk[f].text.newline = disk0[f].text.newline
                 /\ disk0[f].text.newline = 0 => disk[f].text.newline = 1

\* C15 (output format): a JSON file the updater writes is the canonical
\* pretty serialization of the tree followed by exactly one line feed; a TOML
\* file the updater writes ends with a line feed, which is added only when
\* the serialized document ends with none.
C15_OutputFormat == []C15_Written /\ [][C15_Write]_vars

\* One call has written a JSON file that was in another layout and a TOML
\* file that ended without a line feed.
C15_Witness ==
    \E f, g \in ProcessedFiles :
        /\ Written(f) /\ Written(g)
        /\ disk0[f].kind = "file" /\ disk0[g].kind = "file"
        /\ disk0[f].text.syntax = "json" /\ disk0[f].text.layout = "other"
        /\ disk[f].text.layout = "pretty"
        /\ disk0[g].text.syntax = "toml" /\ disk0[g].text.newline = 0
        /\ disk[g].text.newline = 1

----------------------------------------------------------------------------
(* C16 *)

\* The capital of a letter of `json` or `toml`.
Capital(c) ==
    CASE c = "j" -> "J" [] c = "s" -> "S" [] c = "o" -> "O" [] c = "n" -> "N"
      [] c = "t" -> "T" [] c = "m" -> "M" [] c = "l" -> "L"

\* The path ends in a file name with the extension `ext`, in any case: a dot
\* and the letters of ext behind a name that is not empty.
HasExtension(path, ext) ==
    LET n == Len(path)
        e == Len(ext)
    IN  /\ n >= e + 2
        /\ path[n - e] = "."
        /\ path[n - e - 1] # "/"
        /\ \A i \in 1..e : path[n - e + i] \in {ext[i], Capital(ext[i])}

ExtJson == <<"j", "s", "o", "n">>

ExtToml == <<"t", "o", "m", "l">>

\* The choice of the format of the current file.
C16_Detect ==
    pc = "detect" =>
        LET o == MapGet(format_overrides, relative_path) IN
        IF o.some THEN pc' = "read" /\ format' = o.v
        ELSE IF HasExtension(relative_path, ExtJson) THEN pc' = "read" /\ format' = "Json"
        ELSE IF HasExtension(relative_path, ExtToml) THEN pc' = "read" /\ format' = "Toml"
        ELSE /\ pc' = "done"
             /\ result' = ReturnedErr(Error("Cannot infer file format", <<>>, None, relative_path))
             /\ ioLog' = ioLog
             /\ ioLog[Len(ioLog)] = [op |-> "exists", file |-> relative_path]
             /\ content' = content

\* C16 (format selection): an override for the path is the format used,
\* whatever the extension; without one the extension json or toml, in any
\* case, tells the format, and any other or no extension fails with the
\* configuration error for the path before the file is read.
C16_FormatSelection ==
    [](pc \in {"read", "parse_selectors", "parse_document"} => format \in {"Json", "Toml"})
    /\ [][C16_Detect]_vars

\* The call failed on a path without a usable extension, the file unread.
C16_Witness ==
    /\ Failed
    /\ result.err.kind = "Cannot infer file format"
    /\ result.err.file \in ExtensionPaths
    /\ \A i \in 1..Len(ioLog) : ioLog[i].op # "read"

----------------------------------------------------------------------------
(* C17 *)

\* The format of the file being processed is known.
FormatKnown ==
    pc \in {"read", "parse_selectors", "parse_document", "resolve", "resolved", "set", "finish"}

\* C17 (extension before override): for a path with the extension json or
\* toml the format used is the one of the extension, whatever override the
\* path has.
C17_ExtensionWins ==
    FormatKnown =>
        /\ HasExtension(relative_path, ExtJson) => format = "Json"
        /\ HasExtension(relative_path, ExtToml) => format = "Toml"

----------------------------------------------------------------------------
(* Vocabulary of the properties of the parser *)

\* The selector text of the file being processed (its only one), trimmed.
SelectorText == Trim(version_updates[relative_path][1])

\* parse_selector has returned Ok, or Err.
Accepted == pc = "parse_document"

Rejected == Failed /\ result.err.kind = "Invalid version selector"

ParseEnded == Len(version_updates[relative_path]) = 1 /\ (Accepted \/ Rejected)

\* The selector parse_selector has returned.
ParsedSelector == parsed_selectors[1].selector

Count(s, c) == Cardinality({i \in 1..Len(s) : s[i] = c})

\* A text that may be a key or a filter field.
ValidToken(s) == s # <<>> /\ ~Contains(s, ".") /\ ~Contains(s, "[") /\ ~Contains(s, "]")

\* The text is key[qualifier], one segment with one pair of brackets.
IsKeyWithQualifier(t) ==
    /\ Count(t, "[") = 1
    /\ Count(t, "]") = 1
    /\ t[Len(t)] = "]"
    /\ ValidToken(Trim(SubSeq(t, 1, Find(t, "[") - 1)))

KeyPart(t) == Trim(SubSeq(t, 1, Find(t, "[") - 1))

QualifierPart(t) == Trim(SubSeq(t, Find(t, "[") + 1, Len(t) - 1))

AllDigits(s) == s # <<>> /\ \A i \in 1..Len(s) : s[i] \in {"0", "1", "2", "3", "4", "5", "6", "7", "8", "9"}

\* A filter value without the quotes of one kind around it.
Unquoted(s) ==
    IF Len(s) >= 2 /\ s[1] = s[Len(s)] /\ s[1] \in {"'", "\""} THEN SubSeq(s, 2, Len(s) - 1) ELSE s

----------------------------------------------------------------------------
(* C18 *)

\* C18 (qualifier grammar): a qualifier of ASCII digits only parses to Index;
\* any other qualifier is accepted only with exactly one `=`, as Filter of the
\* field before it and the value behind it; a qualifier with no `=` or with
\* more than one is rejected.
C18_QualifierGrammar ==
    (ParseEnded /\ IsKeyWithQualifier(SelectorText)) =>
        LET q == QualifierPart(SelectorText) IN
        IF AllDigits(q)
        THEN /\ Accepted
             /\ ParsedSelector = <<SelectorSegment(KeyPart(SelectorText), Index(DigitsValue(q)))>>
        ELSE IF Count(q, "=") = 1
        THEN Accepted =>
                ParsedSelector =
                    <<SelectorSegment(KeyPart(SelectorText),
                                      Filter(Trim(SubSeq(q, 1, Find(q, "=") - 1)),
                                             Unquoted(Trim(SubSeq(q, Find(q, "=") + 1, Len(q))))))>>
        ELSE Rejected

----------------------------------------------------------------------------
(* C19 *)

\* Position k of the text is inside brackets: a `[` before it, and no `]`
\* between the two.
InBrackets(t, k) ==
    \E i \in 1..(k - 1) : t[i] = "[" /\ \A j \in (i + 1)..(k - 1) : t[j] # "]"

NestedOpen(t) == \E k \in 1..Len(t) : t[k] = "[" /\ InBrackets(t, k)

UnmatchedClose(t) == \E k \in 1..Len(t) : t[k] = "]" /\ ~InBrackets(t, k)

OpenAtEnd(t) == InBrackets(t, Len(t) + 1)

\* The dots outside brackets.
SplitPoints(t) == {k \in 1..Len(t) : t[k] = "." /\ ~InBrackets(t, k)}

\* Two neighbouring split points (or ends of the text) with nothing but
\* whitespace between them.
EmptySegment(t) ==
    LET ends == SplitPoints(t) \cup {0, Len(t) + 1} IN
    \E a, b \in ends :
        /\ a < b
        /\ \A c \in ends : ~(a < c /\ c < b)
        /\ Trim(SubSeq(t, a + 1, b - 1)) = <<>>

\* The text is key[field=value] with a field and a value that are in order.
IsKeyWithFilter(t) ==
    /\ IsKeyWithQualifier(t)
    /\ LET q == QualifierPart(t) IN
       /\ Count(q, "=") = 1
       /\ ValidToken(Trim(SubSeq(q, 1, Find(q, "=") - 1)))
       /\ Unquoted(Trim(SubSeq(q, Find(q, "=") + 1, Len(q)))) # <<>>

\* C19 (segments and brackets): a dot splits segments only outside brackets,
\* so key[field=value] is one segment whatever dots the value has; a `[`
\* inside brackets, a `]` outside brackets, a `[` open at the end, an empty
\* or blank selector and an empty segment are syntax errors.
C19_SegmentsAndBrackets ==
    ParseEnded =>
        /\ (\/ SelectorText = <<>>
            \/ NestedOpen(SelectorText)
            \/ UnmatchedClose(SelectorText)
            \/ OpenAtEnd(SelectorText)
            \/ EmptySegment(SelectorText)) => Rejected
        /\ Accepted => Len(ParsedSelector) = Cardinality(SplitPoints(SelectorText)) + 1
        /\ IsKeyWithFilter(SelectorText) => (Accepted /\ Len(ParsedSelector) = 1)

\* A selector with a dot inside its brackets has been parsed to one segment.
C19_Witness ==
    /\ ParseEnded
    /\ Accepted
    /\ IsKeyWithFilter(SelectorText)
    /\ Contains(QualifierPart(SelectorText), ".")
    /\ Len(ParsedSelector) = 1

----------------------------------------------------------------------------
(* C20 *)

WellFormedSegment(segment) ==
    /\ ValidToken(segment.key)
    /\ segment.qualifier.t \in {"None", "Index", "Filter"}
    /\ segment.qualifier.t = "Index" => segment.qualifier.index \in Nat
    /\ segment.qualifier.t = "Filter" =>
          /\ ValidToken(segment.qualifier.field)
          /\ segment.qualifier.value # <<>>
          /\ ~Contains(segment.qualifier.value, "[")
          /\ ~Contains(segment.qualifier.value, "]")

\* C20 (well-formed selectors): a selector parse_selector returns has at
\* least one segment; every key and every filter field is non-empty and has
\* none of `.`, `[`, `]`; every filter value is non-empty after the quotes
\* are stripped and has neither `[` nor `]`; no segment has more than one
\* qualifier.
C20_WellFormedSelector ==
    (ParseEnded /\ Accepted) =>
        /\ Len(ParsedSelector) >= 1
        /\ \A i \in 1..Len(ParsedSelector) : WellFormedSegment(ParsedSelector[i])
        /\ Count(SelectorText, "[") =
              Cardinality({i \in 1..Len(ParsedSelector) : ParsedSelector[i].qualifier.t # "None"})

\* A selector of two segments was returned whose filter value had quotes.
C20_Witness ==
    /\ ParseEnded
    /\ Accepted
    /\ Len(ParsedSelector) = 2
    /\ \E i \in 1..Len(ParsedSelector) :
          /\ ParsedSelector[i].qualifier.t = "Filter"
          /\ ~Contains(ParsedSelector[i].qualifier.value, "'")
    /\ Contains(SelectorText, "'")

----------------------------------------------------------------------------
(* C21: parse_selector is total *)

\* The messages of the parser's own errors.
SyntaxErrors ==
    { "Version selector cannot be empty.", "nested [ is not supported", "unmatched ]",
      "unmatched [", "empty path segment", "must end with ] when using a qualifier",
      "empty segment qualifier", "invalid array index",
      "must be either an array index or field=value",
      "empty segment key", "segment key contains an unsupported character",
      "empty filter field", "filter field contains an unsupported character",
      "empty filter value", "filter value contains an unsupported character" }

\* The digits denote a number above usize::MAX.
AboveUsizeMax(digits) ==
    LET n == StripLeadingZeros(digits) IN
    \/ Len(n) > Len(UsizeMaxDigits)
    \/ Len(n) = Len(UsizeMaxDigits) /\ n # UsizeMaxDigits /\ ~StrLess(n, UsizeMaxDigits)

\* The text is key[digits] with the digits above usize::MAX.
IsKeyWithWideIndex(t) ==
    /\ IsKeyWithQualifier(t)
    /\ AllDigits(QualifierPart(t))
    /\ AboveUsizeMax(QualifierPart(t))

\* The step that calls parse_selector on the only selector of the file.
C21_Parse ==
    (pc = "parse_selectors" /\ Len(version_updates[relative_path]) = 1) =>
        LET r == parse_selector(SelectorText) IN
        /\ ~Panicked(r)
        /\ r.ok =>
              /\ pc' = "parse_document"
              /\ parsed_selectors' = <<[text |-> SelectorText, selector |-> r.v]>>
              /\ \A i \in 1..Len(r.v) :
                    r.v[i].qualifier.t = "Index" =>
                        /\ r.v[i].qualifier.index \in Nat
                        /\ IsKeyWithQualifier(SelectorText) =>
                              /\ ~AboveUsizeMax(QualifierPart(SelectorText))
                              /\ r.v[i].qualifier.index = DigitsValue(QualifierPart(SelectorText))
        /\ ~r.ok =>
              /\ r.err \in SyntaxErrors
              /\ result' = ReturnedErr(Error("Invalid version selector", <<>>,
                                             Some(SelectorText), relative_path))
        /\ IsKeyWithWideIndex(SelectorText) => ~r.ok /\ r.err = "invalid array index"

\* C21: parse_selector is total. On every selector text it returns either a
\* selector or one of its syntax errors and never panics, whatever the
\* arrangement of the brackets, for a filter value that is one quote
\* character, and for an all-digit index above usize::MAX, which is an
\* error and never a wrapped-around index.
C21_ParseSelectorTotal == [](result # Unwound) /\ [][C21_Parse]_vars

\* A filter value that is one quote character has been accepted as it is.
C21_Witness ==
    /\ ParseEnded
    /\ Accepted
    /\ Len(ParsedSelector) = 1
    /\ ParsedSelector[1].qualifier = Filter(<<"a">>, <<"'">>)

----------------------------------------------------------------------------
(* C22: what an error names *)

\* The selector texts configured for a file, trimmed.
ConfiguredSelectors(file) ==
    {Trim(version_updates[file][i]) : i \in 1..Len(version_updates[file])}

\* The selector the loop of update_json_file / update_toml_file is at.
FailingSelector == parsed_selectors[selIdx]

\* What that selector resolves to on the tree the resolver reads.
ResolvedNow ==
    IF format = "Json" THEN resolve_json_paths(value, FailingSelector.selector)
    ELSE resolve_toml_paths(value, FailingSelector.selector)

\* Errors that are about the file and none of its selectors.
FileErrorKinds ==
    {"was not found", "Cannot infer file format", "Failed to read",
     "Failed to parse JSON file", "Failed to parse TOML file"}

\* C22: every error of apply_version_updates names the file the call was
\* at, which is the file the error is about; an error that arises from a
\* selector (syntax error, type mismatch, no match, non-string target,
\* internal path-resolution error) also carries the text of that selector,
\* which is the selector that does not parse, does not resolve, or leads to
\* the value that is no string.
C22_ErrorsNameFileAndSelector ==
    Failed =>
        LET e == result.err IN
        /\ e.file = relative_path
        /\ e.kind \in FileErrorKinds \cup SelectorErrorKinds \cup {InternalError.kind}
        /\ e.kind = "was not found" => disk[e.file].kind = "absent"
        /\ e.kind = "Failed to read" => disk[e.file] = Directory
        /\ e.kind = "Cannot infer file format" =>
              /\ e.file \notin DOMAIN format_overrides
              /\ ~HasExtension(e.file, ExtJson)
              /\ ~HasExtension(e.file, ExtToml)
        /\ e.kind = "Failed to parse JSON file" => format = "Json" /\ content.syntax # "json"
        /\ e.kind = "Failed to parse TOML file" => format = "Toml" /\ content.syntax # "toml"
        /\ e.kind \in SelectorErrorKinds \cup {InternalError.kind} =>
              /\ e.selector.some
              /\ e.selector.v \in ConfiguredSelectors(e.file)
        /\ e.kind = "Invalid version selector" => ~parse_selector(e.selector.v).ok
        /\ e.kind \in TypeMismatchKinds \cup {MatchedNoValues.kind} =>
              /\ e.selector.v = FailingSelector.text
              /\ ~ResolvedNow.ok
              /\ ResolvedNow.err.kind = e.kind
        /\ e.kind \in {NonStringValue.kind, InternalError.kind} =>
              /\ e.selector.v = FailingSelector.text
              /\ LET node == NodeAt(MemoryTree, target_paths[pathIdx]) IN
                 IF e.kind = NonStringValue.kind THEN node.some /\ ~IsString(node.v)
                 ELSE ~node.some

\* The second file of the call has failed on the syntax of its second
\* selector.
C22_Witness ==
    /\ Failed
    /\ fileIdx > 1
    /\ result.err.kind = "Invalid version selector"
    /\ result.err.selector.v # Trim(version_updates[relative_path][1])

----------------------------------------------------------------------------
(* C23: the elements of an array under a filter *)

\* The arrays the filter segment is applied to: the children under its key
\* at the frontier paths that are arrays.
FilteredArrays ==
    {ChildOf(value, path, CurrentSegment.key).v.a :
        path \in {q \in Range(current_paths) :
                     LET child == ChildOf(value, q, CurrentSegment.key) IN
                     child.some /\ IsSequence(child.v)}}

\* The element is a mapping without the field.
LacksField(element, field) == IsMapping(element) /\ field \notin DOMAIN element.m

\* The element is a mapping whose field is present and no string.
HasNonStringField(element, field) ==
    IsMapping(element) /\ field \in DOMAIN element.m /\ ~IsString(element.m[field])

\* A resolver step on a filter segment.
C23_Resolve ==
    (pc = "resolve" /\ CurrentSegment.qualifier.t = "Filter") =>
        LET field == CurrentSegment.qualifier.field
            v     == CurrentSegment.qualifier.value
            elems == UNION {Range(a) : a \in FilteredArrays}
        IN  /\ (\E e \in elems : ~IsMapping(e) \/ HasNonStringField(e, field))
                  => FailsWithTypeMismatch
            /\ (/\ pc' = "done"
                /\ result'.err.kind \in {"expects all elements to be objects",
                                         "expects filter field to be a string"})
                  => \E e \in elems :
                        IF result'.err.kind = "expects filter field to be a string"
                        THEN HasNonStringField(e, field) /\ result'.err.name = field
                        ELSE ~IsMapping(e) /\ result'.err.name = CurrentSegment.key
            /\ (/\ \A path \in Range(current_paths) :
                       LET child == ChildOf(value, path, CurrentSegment.key) IN
                       child.some => IsSequence(child.v)
                /\ \A e \in elems : LacksField(e, field) \/ ElementMatches(e, field, v))
                  => /\ pc' # "done"
                     /\ \A path \in Range(current_paths) :
                           LET child == ChildOf(value, path, CurrentSegment.key) IN
                           child.some =>
                               \A i \in 1..Len(child.v.a) :
                                   (Append(Append(path, PathStepKey(CurrentSegment.key)),
                                           PathStepIndex(i - 1)) \in Range(current_paths'))
                                   <=> ~LacksField(child.v.a[i], field)
            /\ elems = {} =>
                  IF \A path \in Range(current_paths) :
                        LET child == ChildOf(value, path, CurrentSegment.key) IN
                        child.some => IsSequence(child.v)
                  THEN pc' # "done" /\ current_paths' = <<>>
                  ELSE result'.err.kind = "expects segment to be an array"

\* C23 (filter element rules): when a filter is applied to an array, an
\* element without the filter field is skipped without error; an element
\* whose filter field is present and no string, and an element that is no
\* mapping, make the resolution fail with a type error, whatever other
\* elements of the array match; an empty array gives no error and no match.
C23_FilterElementRules == [][C23_Resolve]_vars

\* The resolution has failed on the non-string filter field of one element
\* of an array in which another element matches the filter.
C23_Witness ==
    /\ Failed
    /\ result.err.kind = "expects filter field to be a string"
    /\ format = "Toml"
    /\ LET segment == parsed_selectors[selIdx].selector[segIdx] IN
       \E path \in Range(current_paths) :
          LET child == ChildOf(value, path, segment.key) IN
          /\ child.some /\ IsSequence(child.v)
          /\ \E i, j \in 1..Len(child.v.a) :
                /\ ElementMatches(child.v.a[i], segment.qualifier.field, segment.qualifier.value)
                /\ HasNonStringField(child.v.a[j], segment.qualifier.field)

----------------------------------------------------------------------------
(* C24: the order of the steps on one file *)

\* The selectors of a file that come before the first one that does not
\* parse, each with its trimmed text.
RECURSIVE ParsedPrefix(_)
ParsedPrefix(texts) ==
    IF texts = <<>> THEN <<>>
    ELSE LET selector == parse_selector(Trim(Head(texts))) IN
         IF ~selector.ok THEN <<>>
         ELSE <<[text |-> Trim(Head(texts)), selector |-> selector.v]>> \o ParsedPrefix(Tail(texts))

\* The kind of the error of the earliest failing step of the current file
\* when the steps run as existence check, format detection, read, document
\* parse, then parse, resolve and mutate selector by selector.
EarliestFailingStep ==
    LET file   == relative_path
        fmt    == detect_file_format(file, MapGet(format_overrides, file))
        texts  == version_updates[file]
        prefix == ParsedPrefix(texts)
    IN  IF disk[file].kind = "absent" THEN "was not found"
        ELSE IF ~fmt.ok THEN fmt.err
        ELSE IF disk[file].kind # "file" THEN "Failed to read"
        ELSE LET r == IF fmt.v = "Json"
                      THEN update_json_file(disk[file].text, prefix, next_version)
                      ELSE update_toml_file(disk[file].text, prefix, next_version)
             IN  IF ~r.ok THEN r.err.kind
                 ELSE IF Len(prefix) < Len(texts) THEN "Invalid version selector"
                 ELSE "none"

\* C24 (per-file step order): the steps on a file run as existence check,
\* format detection, read, document parse, then for each selector in order
\* parse, resolve, mutate, and the error returned for the file is the one of
\* the earliest failing step in this order: a file with invalid text and a
\* malformed selector fails with the document parse error, and a malformed
\* later selector is reported only when the selectors before it have
\* resolved.
C24_StepOrder == Failed => result.err.kind = EarliestFailingStep

----------------------------------------------------------------------------
(* C25: quotes around a filter value *)

\* The text is key[field=value] with a key and a field that are in order;
\* the field ends at the first `=`.
IsKeyWithFieldAndValue(t) ==
    /\ IsKeyWithQualifier(t)
    /\ LET q == QualifierPart(t) IN
       /\ ~AllDigits(q)
       /\ Contains(q, "=")
       /\ ValidToken(Trim(SubSeq(q, 1, Find(q, "=") - 1)))

FieldPart(t) == LET q == QualifierPart(t) IN Trim(SubSeq(q, 1, Find(q, "=") - 1))

ValuePart(t) == LET q == QualifierPart(t) IN Trim(SubSeq(q, Find(q, "=") + 1, Len(q)))

\* The value is wrapped in a pair of double quotes or of single quotes.
Wrapped(v) == Len(v) >= 2 /\ v[1] = v[Len(v)] /\ v[1] \in {"'", "\""}

Inner(v) == SubSeq(v, 2, Len(v) - 1)

\* The selector text key[field=w] with the key and the field of t.
WithValue(t, w) == KeyPart(t) \o <<"[">> \o FieldPart(t) \o <<"=">> \o w \o <<"]">>

\* The statement as claimed: the wrapped value parses as the unwrapped one.
C25_QuotesStripped ==
    (ParseEnded /\ IsKeyWithFieldAndValue(SelectorText)) =>
        LET v == ValuePart(SelectorText) IN
        IF Wrapped(v)
        THEN IF Inner(v) = <<>> THEN Rejected
             ELSE LET unwrapped == parse_selector(WithValue(SelectorText, Inner(v))) IN
                  /\ Accepted <=> unwrapped.ok
                  /\ Accepted => ParsedSelector = unwrapped.v
        ELSE Accepted => ParsedSelector[1].qualifier.value = v

\* C25 (quote stripping in filter values): a filter value wrapped in a pair
\* of double quotes or of single quotes parses to the text between the
\* quotes, as it is; when that text has no whitespace at its ends and is not
\* itself wrapped in a pair of quotes, this is the selector the unwrapped
\* value parses to. A value with mismatched or one-sided quotes keeps its
\* quote characters, and a value that is empty after stripping is rejected.
C25_QuotesStrippedOnce ==
    (ParseEnded /\ IsKeyWithFieldAndValue(SelectorText)) =>
        LET v == ValuePart(SelectorText) IN
        IF Wrapped(v)
        THEN IF Inner(v) = <<>> THEN Rejected
             ELSE /\ Accepted
                  /\ ParsedSelector = <<SelectorSegment(KeyPart(SelectorText),
                                                        Filter(FieldPart(SelectorText), Inner(v)))>>
                  /\ (Trim(Inner(v)) = Inner(v) /\ ~Wrapped(Inner(v))) =>
                        parse_selector(WithValue(SelectorText, Inner(v))) = Ok(ParsedSelector)
        ELSE IF v = <<>> THEN Rejected
        ELSE /\ Accepted
             /\ ParsedSelector = <<SelectorSegment(KeyPart(SelectorText),
                                                   Filter(FieldPart(SelectorText), v))>>

\* A value in double quotes has been parsed to the selector of the value
\* without them.
C25_Witness ==
    /\ ParseEnded
    /\ Accepted
    /\ IsKeyWithFieldAndValue(SelectorText)
    /\ Wrapped(ValuePart(SelectorText))
    /\ ValuePart(SelectorText)[1] = "\""
    /\ parse_selector(WithValue(SelectorText, Inner(ValuePart(SelectorText)))) = Ok(ParsedSelector)

----------------------------------------------------------------------------
(* C26: the two resolvers on the encodings of one tree *)

\* The tree of mappings, sequences and scalars that a toml::Value is, in the
\* shape of a serde_json::Value.
RECURSIVE TomlValueToJson(_)
TomlValueToJson(node) ==
    CASE node.k = "String"  -> JsonString(node.s)
      [] node.k = "Integer" -> JsonNumber(node.n)
      [] node.k = "Boolean" -> JsonBool(node.b)
      [] node.k = "Array"   -> JsonArray([i \in 1..Len(node.a) |-> TomlValueToJson(node.a[i])])
      [] node.k = "Table"   -> JsonObject([key \in DOMAIN node.m |-> TomlValueToJson(node.m[key])])

\* The toml::Value of a tree.
TomlEncoding(tree) == EditToValue(JsonToEditItem(tree))

\* The tree the resolver of the current file reads.
AbstractTree == IF format = "Json" THEN value ELSE TomlValueToJson(value)

\* A resolver step, and at the first segment the resolution as a whole, on
\* both encodings of the tree.
C26_Resolve ==
    (pc = "resolve" /\ TomlDenotable(AbstractTree)) =>
        LET tree     == AbstractTree
            selector == parsed_selectors[selIdx].selector
            j == JsonResolveSegment(tree, current_paths, CurrentSegment)
            t == TomlResolveSegment(TomlEncoding(tree), current_paths, CurrentSegment)
        IN  /\ format = "Toml" => TomlEncoding(tree) = value
            /\ j = t
            /\ IF j.ok THEN pc' # "done" /\ current_paths' = j.v
               ELSE /\ pc' = "done"
                    /\ result'.err.kind = j.err.kind
                    /\ result'.err.name = j.err.name
            /\ segIdx = 1 =>
                  resolve_json_paths(tree, selector) = resolve_toml_paths(TomlEncoding(tree), selector)

\* C26 (resolver equivalence): for one selector and one tree of mappings,
\* sequences and scalars, resolve_json_paths on the JSON encoding and
\* resolve_toml_paths on the TOML encoding return the same result: the same
\* kind of error, raised at the same segment, or the same list of concrete
\* paths in the same order.
C26_ResolverEquivalence == [][C26_Resolve]_vars

\* The resolver of the JSON file has returned two paths for a selector of
\* three segments, the paths the TOML resolver returns.
C26_Witness ==
    /\ pc = "set"
    /\ pathIdx = 1
    /\ format = "Json"
    /\ TomlDenotable(value)
    /\ Len(parsed_selectors[selIdx].selector) = 3
    /\ Len(target_paths) = 2
    /\ resolve_toml_paths(TomlEncoding(value), parsed_selectors[selIdx].selector) = Ok(target_paths)

----------------------------------------------------------------------------
(* Vocabulary of the properties of the workflow *)

\* The commands that change the repository or the pull requests.
IsGit(call, verb) == call.program = "git" /\ Contains(call.args, verb)

IsGh(call, verb) == call.program = "gh" /\ call.args = <<"pr", verb>>

StateChanging(call) ==
    \/ \E verb \in {"checkout", "add", "commit", "push"} : IsGit(call, verb)
    \/ \E verb \in {"create", "edit"} : IsGh(call, verb)

\* The read-only commands of the release calculation, and nothing else.
OnlyTagListAndLog ==
    /\ Len(calls) = 2
    /\ calls[1].program = "git" /\ calls[1].args = <<"tag", "--list">>
    /\ calls[2].program = "git" /\ Head(calls[2].args) = "log"

\* apply_version_updates has returned a report with a changed file.
ReportedChanges == pc = "done" /\ result.ok /\ result.changed_files # <<>>

\* Both commands of the release calculation succeeded and there is nothing
\* to release: no releasable commit, no configured file, or no changed file.
NothingToRelease ==
    \/ rpc = "resolved" /\ (~next_release.some \/ DOMAIN version_updates = {})
    \/ rpc = "apply" /\ pc = "done" /\ result.ok /\ result.changed_files = <<>>

Returns == rpc # "returned" /\ rpc' = "returned"

----------------------------------------------------------------------------
(* C27 *)

C27_Return ==
    (NothingToRelease /\ Returns) =>
        /\ outcome'.ok
        /\ OnlyTagListAndLog'
        /\ \A i \in 1..Len(calls') : calls'[i].program # "gh"

\* C27: run_with_runner issues a state-changing command (git checkout, add,
\* commit, push; gh pr create, edit) only when apply_version_updates has
\* returned a report whose changed_files is not empty; and when there is no
\* releasable commit, no configured version update or no changed file, it
\* returns Ok having run `git tag --list` and `git log` and nothing else, so
\* no `gh` command.
C27_ChangesOnlyWithChangedFiles ==
    /\ []((\E i \in 1..Len(calls) : StateChanging(calls[i])) => ReportedChanges)
    /\ [][C27_Return]_vars

\* The configured file holds the next version already: the workflow has
\* returned Ok after the two read-only commands and the unchanged report.
C27_Witness ==
    /\ rpc = "returned"
    /\ outcome.ok
    /\ next_release.some
    /\ pc = "done" /\ result.ok /\ result.changed_files = <<>>
    /\ ioLog # <<>>
    /\ OnlyTagListAndLog

----------------------------------------------------------------------------
(* C30 *)

\* What a recorded command is.
CommandKind(call) ==
    CASE IsGit(call, "tag") -> "tag"
      [] IsGit(call, "log") -> "log"
      [] IsGh(call, "list") -> "list"
      [] IsGit(call, "checkout") -> "checkout"
      [] IsGit(call, "add") -> "add"
      [] IsGit(call, "diff") -> "diff"
      [] IsGit(call, "commit") -> "commit"
      [] IsGit(call, "push") -> "push"
      [] IsGh(call, "edit") \/ IsGh(call, "create") -> "pr"
      [] OTHER -> "other"

CommandOrder == <<"tag", "log", "list", "checkout", "add", "diff", "commit", "push", "pr">>

\* The command ran and exited with the status that lets the workflow go on:
\* 1 for `git diff --cached --quiet`, 0 for every other command.
Passed(call) ==
    /\ call.answer.ok
    /\ call.answer.v.status = (IF CommandKind(call) = "diff" THEN 1 ELSE 0)

\* The positions of the commands of a kind.
CallsOf(kind) == {i \in 1..Len(calls) : CommandKind(calls[i]) = kind}

\* The token is being resolved or has been.
TokenStage == rpc = "gh_token" \/ Len(calls) >= 3

\* Every file of the report holds a text written by this run.
Rewritten ==
    /\ ReportedChanges
    /\ \A i \in 1..Len(result.changed_files) :
          LET file == result.changed_files[i] IN
          /\ disk[file] # disk0[file]
          /\ \E k \in 1..Len(ioLog) : ioLog[k] = [op |-> "write", file |-> file]

\* An open pull request of the answer of `gh pr list` carries the marker.
ManagedPrListed ==
    /\ CallsOf("list") # {}
    /\ LET list == calls[CHOOSE i \in CallsOf("list") : TRUE].answer.v.stdout IN
       \E i \in 1..Len(list.prs) :
          /\ list.prs[i].body.some
          /\ \E l \in 1..Len(list.prs[i].body.v) : list.prs[i].body.v[l] = ManagedReleasePrMarker

\* The commands occur in the one order, each after all earlier ones passed,
\* and the files are rewritten before the token and the branch.
C30_Order ==
    /\ Len(calls) <= Len(CommandOrder)
    /\ \A i \in 1..Len(calls) : CommandKind(calls[i]) = CommandOrder[i]
    /\ \A i \in 1..Len(calls) : \A j \in 1..(i - 1) : Passed(calls[j])
    /\ \A i \in CallsOf("commit") \cup CallsOf("push") :
          \E j \in CallsOf("diff") : j < i /\ calls[j].answer.ok /\ calls[j].answer.v.status = 1
    /\ TokenStage => Rewritten

\* The PR command that is issued follows a push that passed and is the one
\* the listed pull requests select.
C30_PrCommand ==
    \A i \in CallsOf("pr") :
        /\ \E j \in CallsOf("push") : j < i /\ Passed(calls[j])
        /\ IsGh(calls[i], "edit") <=> ManagedPrListed

PushPassed == \E j \in CallsOf("push") : Passed(calls[j])

\* No file is written once the token is being resolved.
C30_NoLateWrite == TokenStage => disk' = disk

\* C30: the version files are rewritten on disk before the GitHub token is
\* resolved and before the release branch is checked out; the commands
\* occur only in the order list-PRs, checkout, add, diff --cached, commit,
\* push, PR create-or-edit, each only if all previous ones succeeded; commit
\* and push only if the diff exited 1; and of `gh pr edit` (when a listed
\* open PR carries the marker) and `gh pr create` (otherwise) exactly one is
\* issued, never both and never the other one, and only after the push
\* succeeded: a run that pushed and returns Ok has issued exactly that one.
C30_CommandOrder ==
    /\ [](C30_Order /\ C30_PrCommand)
    /\ [](Cardinality(CallsOf("pr")) <= 1)
    /\ []((rpc = "returned" /\ outcome.ok /\ PushPassed) => Cardinality(CallsOf("pr")) = 1)
    /\ [][C30_NoLateWrite]_vars

\* The nine commands of a run that edits the managed pull request after it
\* rewrote two files.
C30_Witness ==
    /\ rpc = "returned"
    /\ outcome.ok
    /\ Len(calls) = 9
    /\ IsGh(calls[9], "edit")
    /\ ManagedPrListed
    /\ Len(result.changed_files) = 2
    /\ Rewritten

----------------------------------------------------------------------------
(* C28 *)

JsonUpdate == format = "Json" /\ pc \in {"resolve", "resolved", "set"}

\* Every path the resolver holds, and every path handed to the mutator, leads
\* to a node of the tree as it is now.
JsonPathsNavigable ==
    /\ \A k \in 1..Len(current_paths) : NodeAt(value, current_paths[k]).some
    /\ pc = "set" => \A k \in 1..Len(target_paths) : NodeAt(value, target_paths[k]).some

\* A step of update_json_file leaves the shape of the tree as it is.
C28_ShapeKept == JsonUpdate => Skeleton(value') = Skeleton(value)

\* C28: in the JSON path the internal path-resolution error is unreachable:
\* every path resolve_json_paths returns is navigable by
\* set_json_string_at_path on the same tree, also after the mutations by the
\* previous paths and by the previous selectors of the file, because a
\* mutation never changes the shape of the tree.
C28_JsonInternalErrorUnreachable ==
    /\ []((Failed /\ format = "Json") => result.err.kind # InternalError.kind)
    /\ [](JsonUpdate => JsonPathsNavigable)
    /\ [][C28_ShapeKept]_vars

\* The mutator is at the second path of the second selector of a JSON file
\* whose tree the earlier paths have changed.
C28_Witness ==
    /\ format = "Json"
    /\ pc = "set"
    /\ selIdx >= 2
    /\ pathIdx >= 2
    /\ value # JsonFromStr(content).v
    /\ JsonPathsNavigable

----------------------------------------------------------------------------
(* C29 *)

\* The selector text as configured, untrimmed.
RawSelectorText == version_updates[relative_path][1]

\* Position i of t is inside a bracket pair: the last bracket before it opens.
InsideBrackets(t, i) ==
    LET opens  == {j \in 1..(i - 1) : t[j] = "["}
        closes == {j \in 1..(i - 1) : t[j] = "]"}
    IN  opens # {} /\ \A c \in closes : \E o \in opens : o > c

\* The dots of t that separate segments.
SegmentDots(t) == {i \in 1..Len(t) : t[i] = "." /\ ~InsideBrackets(t, i)}

\* A qualifier without the whitespace around it, around its field and around
\* its value.
SqueezeQualifier(q) ==
    IF Contains(q, "=")
    THEN Trim(SubSeq(q, 1, Find(q, "=") - 1)) \o <<"=">> \o Trim(SubSeq(q, Find(q, "=") + 1, Len(q)))
    ELSE Trim(q)

\* A segment without the whitespace around it, around its key and inside its
\* brackets.
SqueezeSegment(raw) ==
    LET s == Trim(raw) IN
    IF ~Contains(s, "[") \/ s[Len(s)] # "]" THEN s
    ELSE Trim(SubSeq(s, 1, Find(s, "[") - 1)) \o <<"[">>
             \o SqueezeQualifier(SubSeq(s, Find(s, "[") + 1, Len(s) - 1)) \o <<"]">>

\* The text t from position `from` on, segment by segment, without the
\* whitespace that surrounds the parts of its segments.
RECURSIVE SqueezeFrom(_, _)
SqueezeFrom(t, from) ==
    LET dots == {i \in SegmentDots(t) : i >= from} IN
    IF dots = {} THEN SqueezeSegment(SubSeq(t, from, Len(t)))
    ELSE LET dot == CHOOSE i \in dots : \A j \in dots : i <= j IN
         SqueezeSegment(SubSeq(t, from, dot - 1)) \o <<".">> \o SqueezeFrom(t, dot + 1)

Squeeze(t) == SqueezeFrom(t, 1)

HasWhitespace(t) == \E i \in 1..Len(t) : IsWhitespace(t[i])

\* C29 (whitespace insensitivity of parse_selector): whitespace around the
\* whole selector, around each dot-separated segment, around a segment key,
\* inside the brackets around an index, and around a filter field and a
\* filter value is ignored: the selector text parses to the VersionSelector
\* the text without that whitespace parses to, and is rejected when that one
\* is.
C29_WhitespaceIgnored ==
    /\ Accepted =>
          /\ parse_selector(Squeeze(RawSelectorText)).ok
          /\ ParsedSelector = parse_selector(Squeeze(RawSelectorText)).v
    /\ Rejected => ~parse_selector(Squeeze(RawSelectorText)).ok

\* A selector with whitespace in all the places has parsed to the selector
\* of the text without any.
C29_Witness ==
    /\ Accepted
    /\ Len(ParsedSelector) = 2
    /\ ParsedSelector[1].qualifier = Filter(<<"a">>, <<"a">>)
    /\ ParsedSelector[2].qualifier = Index(1)
    /\ Len(RawSelectorText) > Len(Squeeze(RawSelectorText)) + 8
    /\ ~HasWhitespace(Squeeze(RawSelectorText))

====
